---------------------------- MODULE Spec2Model ----------------------------
(***************************************************************************)
(* Model of the revision pipeline of rev_textos:                           *)
(*   - OrquestradorRevisao.processar_texto (the entry point of the GUI     *)
(*     worker) and ProcessarTextoUseCase.executar (the staged pipeline),   *)
(*   - RevisarSecaoUseCase.executar (the per-section revision loop) and    *)
(*     its convergence decision _verificar_convergencia,                   *)
(*   - the parts of Secao / Revisao / TextoEstruturado the pipeline uses.  *)
(*                                                                         *)
(* Specifications:                                                         *)
(*   Spec      the pipeline, run from either entry point, with the agents, *)
(*             the extractor, the report generators and the repository as  *)
(*             nondeterministic collaborators;                             *)
(*   SpecConv  the convergence decision applied to bounded inputs;         *)
(*   SpecGateway  GeminiGateway.gerar_conteudo (cache, rate limit, retry   *)
(*             loop, metrics) called by one sequential client;             *)
(*   SpecProvedores  one call to each of the three provider gateways on    *)
(*             the same sequence of transport outcomes;                    *)
(*   SpecSecao  Secao.adicionar_revisao and Secao.obter_todos_erros;       *)
(*   SpecDocumento  TextoEstruturado.adicionar_secao, remover_secao and    *)
(*             atualizar_status;                                           *)
(*   SpecAgente  AgenteRevisor.processar on one answer of the model.       *)
(*                                                                         *)
(* Texts are abstract: <<"orig",0,0>> is a section's original content,     *)
(* <<"vazio",0,0>> the empty string and <<"rev",f,i>> the text returned by *)
(* the agent of phase f in iteration i.  Floating-point ratios of the      *)
(* convergence decision are modelled as exact rationals <<num, den>>.      *)
(***************************************************************************)
EXTENDS Integers, Sequences, FiniteSets

VARIABLES
    pc,            \* position of the run
    entrada,       \* how ProcessarTextoUseCase was reached: "nenhuma", "orquestrador", "direta"
    interromper,   \* WorkerProcessamento._interromper
    nFases,        \* len(agentes_revisores)
    modo,          \* config["modo_processamento"]
    statusTexto,   \* TextoEstruturado.status ("nenhum" before the entity exists)
    secoes,        \* texto.secoes: sequence of [status, revisoes, conteudo_original]
    fase,          \* fase_idx of the revision stage
    idx,           \* index of the section being revised / validated
    laco,          \* locals of RevisarSecaoUseCase.executar: [i, texto_atual, erros_anterior, convergiu]
    respostas,     \* what the agent answered in the current executar call, oldest first
    saida,         \* the RevisarSecaoOutputDTO of the last executar call that returned
    relatorios,    \* formats for which a report was written
    falha,         \* the exception caught by executar ("nenhuma" when none)
    resultado,     \* the ProcessarTextoOutputDTO returned ([sucesso, mensagem]) or SemResultado
    excecao,       \* the exception that reached the caller of processar_texto
    eventos,       \* log of stage boundaries and collaborator calls
    notificacoes,  \* percentages passed to the progress callback, in order
    desvios,       \* number of executar calls so far in which the agent deviated
    cvAnterior,    \* SpecConv: erros_anterior
    cvAtual,       \* SpecConv: erros_atual
    cvLimiar,      \* SpecConv: limiar as <<num, den>>
    cvResultado    \* SpecConv: <<>>, or <<b>> for b returned by _verificar_convergencia

varsPipeline == <<pc, entrada, interromper, nFases, modo, statusTexto, secoes, fase, idx,
                  laco, respostas, saida, relatorios, falha, resultado, excecao, eventos,
                  notificacoes, desvios>>
varsConv == <<cvAnterior, cvAtual, cvLimiar, cvResultado>>

\* GeminiGateway (SpecGateway)
VARIABLES
    gwPc,                \* position of the gerar_conteudo call: "ocioso", "limite", "tentativa",
                         \* "aguardando" (inside an await of the transport that never completes)
    modo_mock,           \* self._modo_mock
    model,               \* self._model is not None
    requests_per_minute, \* self._requests_per_minute
    cache,               \* self._cache: set of <<key, text>>, one per key
    metricas,            \* self._metricas
    request_timestamps,  \* self._request_timestamps
    agora,               \* time.time(), in seconds
    chamada,             \* the gerar_conteudo call in progress (SemChamada when none):
                         \* its request, attempt number, sleeps, transport invocations,
                         \* errors counted, the time it began, and the number of
                         \* _verificar_rate_limit calls it made
    historico,           \* the finished gerar_conteudo calls, oldest first
    limpou,              \* limpar_cache was called since the last gerar_conteudo call began
    repetir              \* the request the revision loop is about to repeat after a parse failure

varsGateway == <<gwPc, modo_mock, model, requests_per_minute, cache, metricas,
                 request_timestamps, agora, chamada, historico, limpou, repetir>>

\* The three provider gateways called on one sequence of transport outcomes
\* (SpecProvedores)
VARIABLES
    pvDesfechos,         \* what the transport does on its first, second, ... invocation
    pvChamadas           \* per provider: <<>>, or <<r>> for the summary r of its gerar_conteudo call

varsProv == <<pvDesfechos, pvChamadas>>

\* The entities on their own: a Secao and its revisions (SpecSecao), a
\* TextoEstruturado and its sections (SpecDocumento)
VARIABLES
    seRevisoes,          \* Secao.revisoes: for each revision its list of Erro
    seErros,             \* <<>>, or <<r>> for the list r obter_todos_erros returned
    dcStatus,            \* TextoEstruturado.status
    dcSecoes,            \* TextoEstruturado.secoes: list of Secao
    dcIndex,             \* TextoEstruturado._secoes_index: set of <<titulo, Secao>>
    dcHistorico,         \* TextoEstruturado.historico
    dcExcecao,           \* what the last operation on the document raised ("nenhuma": nothing)
    dcChamada            \* the last operation called on the document: its name, its Secao
                         \* argument (<<>>: None, <<s>>: the section s) or its string argument

varsDoc == <<dcStatus, dcSecoes, dcIndex, dcHistorico, dcExcecao, dcChamada>>
varsEnt == <<seRevisoes, seErros, varsDoc>>

\* AgenteRevisor.processar applied to one answer of the model (SpecAgente)
VARIABLES
    agResposta,          \* what the model answers to the request of processar
    agResultado          \* <<>>, or <<r>> for what processar returned or raised

varsAgente == <<agResposta, agResultado>>

varsOutros == <<varsConv, varsGateway, varsProv, varsEnt, varsAgente>>
varsForaDaConv == <<varsPipeline, varsGateway, varsProv, varsEnt, varsAgente>>
varsForaDoGateway == <<varsPipeline, varsConv, varsProv, varsEnt, varsAgente>>
varsForaDosProvedores == <<varsPipeline, varsConv, varsGateway, varsEnt, varsAgente>>
varsForaDasEntidades == <<varsPipeline, varsConv, varsGateway, varsProv, varsAgente>>
varsForaDoAgente == <<varsPipeline, varsConv, varsGateway, varsProv, varsEnt>>
vars == <<varsPipeline, varsConv, varsGateway, varsProv, varsEnt, varsAgente>>

---------------------------------------------------------------------------
(* Bounds of the model *)

MaxFases == 2       \* reviewer agents per run
MaxSecoes == 3      \* sections detected in a document
MaxErros == 2       \* errors reported by one agent answer
MaxDesvios == 1     \* executar calls per run in which the agent deviates (see AgenteResponde)
MaxErrosConv == 20  \* SpecConv: error counts
DenLimiar == 20     \* SpecConv: thresholds are k / DenLimiar, k in 1..DenLimiar

(* Program constants *)

MAX_ITERACOES_PADRAO == 5
LIMIAR_CONVERGENCIA_PADRAO == <<19, 20>>   \* 0.95

---------------------------------------------------------------------------
(* Values *)

TextoOriginal == <<"orig", 0, 0>>
TextoVazio == <<"vazio", 0, 0>>
TextoRevisado(f, i) == <<"rev", f, i>>

SemResultado == [sucesso |-> FALSE, mensagem |-> "sem resultado"]
SemSaida == [total_iteracoes |-> 0, convergiu |-> FALSE]
LacoInicial == [i |-> 0, texto_atual |-> TextoOriginal, erros_anterior |-> 0,
                convergiu |-> FALSE]

MsgInterrompido == "Processamento interrompido pelo usuário."
MsgConcluido == "Processamento concluído"

Modos == {"texto_completo", "por_secao"}
FormatosPedidos == {"markdown", "html"}

\* What the agent can answer to one processar call: a parsed Revisao, a
\* response that cannot be parsed (InvalidResponseException), or any other
\* exception (gateway failure).
Respostas ==
    [tipo : {"revisao"}, erros : 0..MaxErros, saida : {"novo", "vazio"}]
    \cup {[tipo |-> "invalida", erros |-> 0, saida |-> "vazio"],
          [tipo |-> "erro", erros |-> 0, saida |-> "vazio"]}

RespostaLimpa == [tipo |-> "revisao", erros |-> 0, saida |-> "novo"]

Ultima(s) == s[Len(s)]

\* GeminiGateway.__init__: the metrics
MetricasZero ==
    [total_requests |-> 0, total_tokens_input |-> 0, total_tokens_output |-> 0,
     total_erros |-> 0, tempo_total_seg |-> 0]

\* A gerar_conteudo request: strings are sequences of tokens, contexto is
\* None (nulo) or a string.
PedidoNulo ==
    [prompt |-> <<>>, contexto |-> [nulo |-> TRUE, texto |-> <<>>], temperatura |-> <<>>]

SemChamada ==
    [pedido |-> PedidoNulo, tentativa |-> 0, sonos |-> <<>>, transportes |-> 0,
     erros |-> 0, auth |-> FALSE, repeticao |-> FALSE, limpou |-> FALSE,
     inicio |-> 0, verificacoes |-> 0]

JaDesviou(rs) == \E k \in 1..Len(rs) : rs[k] # RespostaLimpa

---------------------------------------------------------------------------
(* RevisarSecaoUseCase._verificar_convergencia *)

\* a/b < c/d for rationals with positive denominators
RacionalMenor(a, b, c, d) == a * d < c * b

\* The mutants below are the decision with the strict comparison turned
\* non-strict, and with the reduction-rate rule dropped.
VerificarConvergenciaNaoEstrita(erros_anterior, erros_atual, limiar) ==
    IF erros_atual = 0 THEN TRUE
    ELSE IF erros_anterior = 0 THEN FALSE
    ELSE ~RacionalMenor(limiar[2] - limiar[1], limiar[2],
                        erros_anterior - erros_atual, erros_anterior)

VerificarConvergenciaSoZero(erros_anterior, erros_atual, limiar) ==
    erros_atual = 0

\* Mutant: the decision with a growing number of errors never taken as
\* convergence.
VerificarConvergenciaSemAumento(erros_anterior, erros_atual, limiar) ==
    IF erros_atual = 0 THEN TRUE
    ELSE IF erros_anterior = 0 THEN FALSE
    ELSE /\ erros_atual <= erros_anterior
         /\ RacionalMenor(erros_anterior - erros_atual, erros_anterior,
                          limiar[2] - limiar[1], limiar[2])

\* taxa_reducao = 1.0 - erros_atual / erros_anterior, as the rational
\* (erros_anterior - erros_atual) / erros_anterior; the result is
\* taxa_reducao < 1.0 - limiar.
VerificarConvergencia(erros_anterior, erros_atual, limiar) ==
    IF erros_atual = 0 THEN TRUE
    ELSE IF erros_anterior = 0 THEN FALSE
    ELSE RacionalMenor(erros_anterior - erros_atual, erros_anterior,
                       limiar[2] - limiar[1], limiar[2])

---------------------------------------------------------------------------
(* Secao and Revisao *)

NovaSecao ==
    [status |-> "pendente", revisoes |-> <<>>, conteudo_original |-> TextoOriginal]

\* Secao.adicionar_revisao: append; a revision already marked as converged
\* concludes the section.
AdicionarRevisao(secao, revisao) ==
    [secao EXCEPT !.revisoes = Append(@, revisao),
                  !.status = IF revisao.convergiu THEN "concluido" ELSE @]

\* Secao.total_iteracoes
TotalIteracoes(secao) == Len(secao.revisoes)

\* The Revisao the loop records in iteration i of phase f for the answer r:
\* numero_iteracao and texto_entrada are set by the loop, the rest by the agent.
RevisaoDe(r, f, i, texto_atual) ==
    [numero_iteracao |-> i,
     texto_entrada |-> texto_atual,
     texto_saida |-> IF r.saida = "novo" THEN TextoRevisado(f, i) ELSE TextoVazio,
     total_erros |-> r.erros,
     convergiu |-> FALSE,
     agente |-> f]

\* revisao.convergiu = True on the revision just appended (the same object
\* the section holds).  Mutant: every revision of the section is marked.
MarcarConvergiuTodas(secao) ==
    [secao EXCEPT !.revisoes = [k \in 1..Len(secao.revisoes) |->
                                   [secao.revisoes[k] EXCEPT !.convergiu = TRUE]]]

MarcarConvergiu(secao) ==
    [secao EXCEPT !.revisoes[Len(secao.revisoes)].convergiu = TRUE]

---------------------------------------------------------------------------
(* Progress percentages of ProcessarTextoUseCase.executar (int() truncates) *)

PctInicioFase(f) == 15 + ((f - 1) * 40) \div nFases
PctSecao(f, i, total) == PctInicioFase(f) + (i * 40) \div (total * nFases)
\* Mutant: the end of a phase takes the whole share of the revision stage.
PctFimFaseInteira(f) == PctInicioFase(f) + 40

PctFimFase(f) == PctInicioFase(f) + 40 \div nFases
PctValidacao(i, total) == 60 + (i * 10) \div total

---------------------------------------------------------------------------
(* RevisarSecaoUseCase.executar: one iteration of the loop *)

\* texto_atual = secao.conteudo_original, before the loop.  Mutant: the loop
\* starts from the last non-empty output recorded in the section.
TextoInicialEncadeado(secao) ==
    LET comSaida == SelectSeq(secao.revisoes, LAMBDA r : r.texto_saida # TextoVazio)
    IN  IF comSaida = <<>> THEN secao.conteudo_original
        ELSE comSaida[Len(comSaida)].texto_saida

TextoInicial(secao) == secao.conteudo_original

\* except InvalidResponseException: log, limpar_cache, continue.  Mutant:
\* the handler also forgets the error count of the previous iteration.
AposRespostaInvalidaEsquece(l) == [l EXCEPT !.erros_anterior = 0]

AposRespostaInvalida(l) == l

\* "Atualizar para próxima iteração": texto_atual only when the output is
\* not empty.  Mutant: the output replaces texto_atual even when it is empty.
AposRevisaoSempreTroca(l, revisao) ==
    [l EXCEPT !.texto_atual = revisao.texto_saida,
              !.erros_anterior = revisao.total_erros,
              !.convergiu = FALSE]

AposRevisaoNaoConvergida(l, revisao) ==
    [l EXCEPT !.texto_atual = IF revisao.texto_saida # TextoVazio
                              THEN revisao.texto_saida ELSE @,
              !.erros_anterior = revisao.total_erros,
              !.convergiu = FALSE]

\* The body of the for loop for the answer r of the agent of phase f:
\* the locals and the section afterwards, and whether the loop breaks.
IterarLaco(l, secao, r, f) ==
    IF r.tipo = "invalida"
    THEN [laco |-> AposRespostaInvalida(l), secao |-> secao, para |-> FALSE]
    ELSE LET revisao == RevisaoDe(r, f, l.i, l.texto_atual)
             registrada == AdicionarRevisao(secao, revisao)
             convergiu == VerificarConvergencia(l.erros_anterior, revisao.total_erros,
                                                LIMIAR_CONVERGENCIA_PADRAO)
         IN  IF convergiu
             THEN [laco |-> [l EXCEPT !.convergiu = TRUE],
                   secao |-> MarcarConvergiu(registrada), para |-> TRUE]
             ELSE [laco |-> AposRevisaoNaoConvergida(l, revisao),
                   secao |-> registrada, para |-> FALSE]

\* What the code after the loop raises: nothing, a loop that did not
\* converge is only logged.  Mutant: the ConvergenciaException the
\* docstring of executar announces.
ExcecaoAposLacoConvergencia(convergiu) ==
    IF convergiu THEN "nenhuma" ELSE "ConvergenciaException"

ExcecaoAposLaco(convergiu) == "nenhuma"

\* RevisarSecaoUseCase._criar_output
CriarOutput(secao, convergiu) ==
    [total_iteracoes |-> TotalIteracoes(secao), convergiu |-> convergiu]

\* ControladorPrincipal._recriar_orquestrador: the tipo_revisao of the
\* reviewer agents, in the order of the phases
TiposRevisao == <<"revisao_gramatical", "revisao_tecnica", "revisao_estrutural">>

\* RevisarSecaoUseCase._obter_configuracao(secao.configuracao_id): the
\* pipeline builds its sections without configuracao_id, so the
\* configuration is the fallback dictionary (its "tipo" entry)
ConfiguracaoDaSecao == [tipo |-> "revisao_gramatical"]

\* AgenteRevisor.processar: tipo = configuracao.get("tipo", self._tipo_revisao)
TipoDoPedido(configuracao, tipo_revisao) ==
    IF "tipo" \in DOMAIN configuracao THEN configuracao.tipo ELSE tipo_revisao

\* The request the agent of phase f sends for the text texto: the prompt is
\* the template named tipo with the text filled in; contexto is not passed.
PedidoDoAgente(f, texto) ==
    [prompt |-> <<TipoDoPedido(ConfiguracaoDaSecao, TiposRevisao[f]), texto>>,
     contexto |-> "None"]

---------------------------------------------------------------------------
(* ProcessarTextoUseCase: construction and the order of the stages *)

\* The parameters of ProcessarTextoUseCase.__init__
ParametrosInit ==
    {"pdf_processor", "agentes_revisores", "agente_validador", "agente_consistencia",
     "texto_repo", "config_repo", "geradores_relatorio", "logger", "callback_progresso"}

\* The keyword arguments OrquestradorRevisao.processar_texto passes to it
ArgumentosOrquestrador ==
    {"pdf_processor", "agentes_revisores", "agente_validador", "agente_consistencia",
     "texto_repo", "config_repo", "geradores_relatorio", "logger", "callback_progresso",
     "check_cancel"}

\* Calling the constructor with keyword arguments args: the exception raised
ExcecaoAoConstruir(args) ==
    IF args \subseteq ParametrosInit THEN "nenhuma" ELSE "TypeError"

Etapas == <<"carregamento", "extracao", "revisao", "validacao", "consistencia",
            "sintese", "relatorio", "persistencia">>

Ordem(e) == CHOOSE k \in 1..Len(Etapas) : Etapas[k] = e

\* Mutant: report generation is skipped after the synthesis.
ProximaEtapaSemRelatorio(e) ==
    IF e = "sintese" THEN "persistencia"
    ELSE IF Ordem(e) < Len(Etapas) THEN Etapas[Ordem(e) + 1] ELSE "retornou"

\* Mutant: the document is saved right after the validation.
ProximaEtapaSalvaCedo(e) ==
    IF e = "validacao" THEN "persistencia"
    ELSE IF Ordem(e) < Len(Etapas) THEN Etapas[Ordem(e) + 1] ELSE "retornou"

\* The stage executar goes to when stage e has finished
ProximaEtapa(e) ==
    IF Ordem(e) < Len(Etapas) THEN Etapas[Ordem(e) + 1] ELSE "retornou"

\* Mutant: the loops nested the other way round (every phase of a section
\* before the next section).
ProximaRevisaoPorSecao(f, s) ==
    IF f < nFases THEN <<f + 1, s>>
    ELSE IF s < Len(secoes) THEN <<1, s + 1>> ELSE <<0, 0>>

\* for fase_idx ...: for i, secao ...: the revision that follows the one of
\* phase f on section s (<<f, 0>>: phase f has no more sections).
ProximaRevisao(f, s) ==
    IF s < Len(secoes) THEN <<f, s + 1>> ELSE <<f, 0>>

Evento(marco, etapa, f, s) == <<marco, etapa, f, s>>

---------------------------------------------------------------------------
(* Initial state: the orchestrator built, nothing running *)

InitPipeline ==
    /\ pc = "ocioso"
    /\ entrada = "nenhuma"
    /\ interromper = FALSE
    /\ nFases \in 0..MaxFases
    /\ modo = "texto_completo"
    /\ statusTexto = "nenhum"
    /\ secoes = <<>>
    /\ fase = 0
    /\ idx = 0
    /\ laco = LacoInicial
    /\ respostas = <<>>
    /\ saida = SemSaida
    /\ relatorios = {}
    /\ falha = "nenhuma"
    /\ resultado = SemResultado
    /\ excecao = "nenhuma"
    /\ eventos = <<>>
    /\ notificacoes = <<>>
    /\ desvios = 0

InitConvParado ==
    /\ cvAnterior = 0
    /\ cvAtual = 0
    /\ cvLimiar = LIMIAR_CONVERGENCIA_PADRAO
    /\ cvResultado = <<>>

\* A gateway with the default arguments, in mock mode, not called
InitGatewayParado ==
    /\ gwPc = "ocioso"
    /\ modo_mock = TRUE
    /\ model = FALSE
    /\ requests_per_minute = 60
    /\ cache = {}
    /\ metricas = MetricasZero
    /\ request_timestamps = <<>>
    /\ agora = 0
    /\ chamada = SemChamada
    /\ historico = <<>>
    /\ limpou = FALSE
    /\ repetir = PedidoNulo

\* No provider gateway called
InitProvParado ==
    /\ pvDesfechos = <<>>
    /\ pvChamadas = <<>>

\* No answer of the model handed to processar
InitAgenteParado ==
    /\ agResposta = [texto |-> "nenhuma"]
    /\ agResultado = <<>>

\* A Secao without revisions and a TextoEstruturado just built
InitEntParado ==
    /\ seRevisoes = <<>>
    /\ seErros = <<>>
    /\ dcStatus = "pendente"
    /\ dcSecoes = <<>>
    /\ dcIndex = {}
    /\ dcHistorico = <<>>
    /\ dcExcecao = "nenhuma"
    /\ dcChamada = [op |-> "nenhuma", secao |-> <<>>, texto |-> ""]

Init ==
    /\ InitPipeline /\ InitConvParado /\ InitGatewayParado /\ InitProvParado
    /\ InitEntParado /\ InitAgenteParado

---------------------------------------------------------------------------
(* Entry points *)

\* ControladorPrincipal.processar_texto: the worker thread is started.
IniciarWorker ==
    /\ UNCHANGED varsOutros
    /\ pc = "ocioso"
    /\ pc' = "worker"
    /\ entrada' = "orquestrador"
    /\ UNCHANGED <<interromper, nFases, modo, statusTexto, secoes, fase, idx, laco,
                   respostas, saida, relatorios, falha, resultado, excecao, eventos,
                   notificacoes, desvios>>

\* WorkerProcessamento.parar, called while the worker runs: from then on
\* _check_cancel raises "Processamento interrompido pelo usuário.".
Parar ==
    /\ UNCHANGED varsOutros
    /\ entrada = "orquestrador"
    /\ pc \notin {"ocioso", "retornou", "levantou"}
    /\ ~interromper
    /\ interromper' = TRUE
    /\ UNCHANGED <<pc, entrada, nFases, modo, statusTexto, secoes, fase, idx, laco,
                   respostas, saida, relatorios, falha, resultado, excecao, eventos,
                   notificacoes, desvios>>

\* OrquestradorRevisao.processar_texto: builds the use case with
\* check_cancel among the keyword arguments, then awaits executar.  Nothing
\* in processar_texto catches what the constructor raises.
ProcessarTexto ==
    /\ UNCHANGED varsOutros
    /\ pc = "worker"
    /\ LET e == ExcecaoAoConstruir(ArgumentosOrquestrador)
       IN  IF e = "nenhuma"
           THEN pc' = "inicio" /\ excecao' = excecao
           ELSE pc' = "levantou" /\ excecao' = e
    /\ UNCHANGED <<entrada, interromper, nFases, modo, statusTexto, secoes, fase, idx,
                   laco, respostas, saida, relatorios, falha, resultado, eventos,
                   notificacoes, desvios>>

\* A caller that builds ProcessarTextoUseCase with the parameters __init__
\* declares and awaits executar.
ChamarExecutar ==
    /\ UNCHANGED varsOutros
    /\ pc = "ocioso"
    /\ LET e == ExcecaoAoConstruir(ParametrosInit)
       IN  IF e = "nenhuma"
           THEN pc' = "inicio" /\ excecao' = excecao
           ELSE pc' = "levantou" /\ excecao' = e
    /\ entrada' = "direta"
    /\ UNCHANGED <<interromper, nFases, modo, statusTexto, secoes, fase, idx,
                   laco, respostas, saida, relatorios, falha, resultado, eventos,
                   notificacoes, desvios>>

---------------------------------------------------------------------------
(* ProcessarTextoUseCase.executar *)

\* Mutant: the handler returns the result of a completed run.
CapturarExcecaoComSucesso(e) ==
    /\ falha' = e
    /\ resultado' = [sucesso |-> TRUE, mensagem |-> MsgConcluido]
    /\ pc' = "retornou"

\* Mutant: the exception is logged and the pipeline goes on to the validation.
CapturarExcecaoESeguir(e) ==
    /\ falha' = e
    /\ resultado' = resultado
    /\ pc' = "validacao"

\* except Exception as e: return ProcessarTextoOutputDTO(sucesso=False,
\* mensagem=str(e))
CapturarExcecao(e) ==
    /\ falha' = e
    /\ resultado' = [sucesso |-> FALSE, mensagem |-> e]
    /\ pc' = "retornou"

\* Configuration, model information of the first reviewer agent (IndexError
\* when there is none), first notification.
Inicio ==
    /\ UNCHANGED varsOutros
    /\ pc = "inicio"
    /\ \/ /\ nFases = 0
          /\ CapturarExcecao("IndexError")
          /\ UNCHANGED <<modo, notificacoes>>
       \/ /\ CapturarExcecao("falha_configuracao")
          /\ UNCHANGED <<modo, notificacoes>>
       \/ /\ nFases > 0
          /\ modo' \in Modos
          /\ notificacoes' = Append(notificacoes, 0)
          /\ pc' = Etapas[1]
          /\ UNCHANGED <<falha, resultado>>
    /\ UNCHANGED <<entrada, interromper, nFases, statusTexto, secoes, fase, idx, laco,
                   respostas, saida, relatorios, excecao, eventos, desvios>>

\* Etapa 1: _carregar_documento (validar_pdf, metadata, hash, business
\* validation), then status PROCESSANDO.
CarregarDocumento ==
    /\ UNCHANGED varsOutros
    /\ pc = "carregamento"
    /\ notificacoes' = Append(notificacoes, 5)
    /\ \/ /\ \E e \in {"TextoInvalidoException", "falha_carregamento"} : CapturarExcecao(e)
          /\ eventos' = Append(eventos, Evento("inicio", "carregamento", 0, 0))
          /\ UNCHANGED statusTexto
       \/ /\ statusTexto' = "processando"
          /\ eventos' = eventos \o <<Evento("inicio", "carregamento", 0, 0),
                                     Evento("fim", "carregamento", 0, 0)>>
          /\ pc' = ProximaEtapa("carregamento")
          /\ UNCHANGED <<falha, resultado>>
    /\ UNCHANGED <<entrada, interromper, nFases, modo, secoes, fase, idx, laco,
                   respostas, saida, relatorios, excecao, desvios>>

\* Etapa 2: _extrair_texto_completo (one section) or _extrair_secoes (the
\* sections the processor detects), then status REVISANDO.
ExtrairTexto ==
    /\ UNCHANGED varsOutros
    /\ pc = "extracao"
    /\ \/ /\ CapturarExcecao("falha_extracao")
          /\ notificacoes' = Append(notificacoes, 10)
          /\ eventos' = Append(eventos, Evento("inicio", "extracao", 0, 0))
          /\ UNCHANGED <<statusTexto, secoes, fase>>
       \/ /\ \E n \in 0..MaxSecoes :
                /\ modo = "texto_completo" => n = 1
                /\ secoes' = [k \in 1..n |-> NovaSecao]
          /\ statusTexto' = "revisando"
          /\ notificacoes' = notificacoes \o <<10, 15>>
          /\ eventos' = eventos \o <<Evento("inicio", "extracao", 0, 0),
                                     Evento("fim", "extracao", 0, 0)>>
          /\ pc' = ProximaEtapa("extracao")
          /\ fase' = 1
          /\ UNCHANGED <<falha, resultado>>
    /\ UNCHANGED <<entrada, interromper, nFases, modo, idx, laco, respostas, saida,
                   relatorios, excecao, desvios>>

\* Etapa 3, start of phase fase_idx: its first notification.
IniciarFase ==
    /\ UNCHANGED varsOutros
    /\ pc = "revisao"
    /\ notificacoes' = Append(notificacoes, PctInicioFase(fase))
    /\ eventos' = IF fase = 1
                  THEN Append(eventos, Evento("inicio", "revisao", 0, 0))
                  ELSE eventos
    /\ IF Len(secoes) > 0
       THEN idx' = 1 /\ pc' = "secao"
       ELSE idx' = 0 /\ pc' = "fase_fim"
    /\ UNCHANGED <<entrada, interromper, nFases, modo, statusTexto, secoes, fase, laco,
                   respostas, saida, relatorios, falha, resultado, excecao, desvios>>

\* The notification of section idx, then uc_revisar.executar(secao, texto)
\* up to the first call of the agent: status REVISANDO, texto_atual the
\* original content, erros_anterior 0, iteration 1.
IniciarRevisaoSecao ==
    /\ UNCHANGED varsOutros
    /\ pc = "secao"
    /\ notificacoes' = Append(notificacoes, PctSecao(fase, idx, Len(secoes)))
    /\ eventos' = Append(eventos, Evento("chamada", "revisar", fase, idx))
    /\ secoes' = [secoes EXCEPT ![idx].status = "revisando"]
    /\ laco' = [i |-> 1, texto_atual |-> TextoInicial(secoes[idx]), erros_anterior |-> 0,
                convergiu |-> FALSE]
    /\ respostas' = <<>>
    /\ pc' = "agente"
    /\ UNCHANGED <<entrada, interromper, nFases, modo, statusTexto, fase, idx, saida,
                   relatorios, falha, resultado, excecao, desvios>>

\* The agent (gateway and parser behind it) answers the pending
\* self._agente.processar(secao, config).  In at most MaxDesvios calls of
\* executar per run the agent answers anything; in the others it answers an
\* error-free revision with a new text.
AgenteResponde ==
    /\ UNCHANGED varsOutros
    /\ pc = "agente"
    /\ \E r \in Respostas :
          /\ r = RespostaLimpa \/ JaDesviou(respostas) \/ desvios < MaxDesvios
          /\ respostas' = Append(respostas, r)
          /\ desvios' = IF r = RespostaLimpa \/ JaDesviou(respostas)
                        THEN desvios ELSE desvios + 1
    /\ pc' = "resposta"
    /\ UNCHANGED <<entrada, interromper, nFases, modo, statusTexto, secoes, fase, idx,
                   laco, saida, relatorios, falha, resultado, excecao, eventos,
                   notificacoes>>

\* The rest of the iteration and, when the loop ends with it, the rest of
\* RevisarSecaoUseCase.executar.  Any exception of the agent other than
\* InvalidResponseException leaves executar and is caught by the pipeline.
TratarResposta ==
    /\ UNCHANGED varsOutros
    /\ pc = "resposta"
    /\ LET r == Ultima(respostas)
           passo == IterarLaco(laco, secoes[idx], r, fase)
           termina == passo.para \/ laco.i = MAX_ITERACOES_PADRAO
           e == ExcecaoAposLaco(passo.laco.convergiu)
           concluida == [passo.secao EXCEPT !.status = "concluido"]
       IN  IF r.tipo = "erro"
           THEN /\ CapturarExcecao("falha_agente")
                /\ UNCHANGED <<secoes, laco, saida, eventos>>
           ELSE IF ~termina
           THEN /\ laco' = [passo.laco EXCEPT !.i = @ + 1]
                /\ secoes' = [secoes EXCEPT ![idx] = passo.secao]
                /\ pc' = "agente"
                /\ UNCHANGED <<saida, eventos, falha, resultado>>
           ELSE IF e # "nenhuma"
           THEN /\ CapturarExcecao(e)
                /\ laco' = passo.laco
                /\ secoes' = [secoes EXCEPT ![idx] = passo.secao]
                /\ UNCHANGED <<saida, eventos>>
           ELSE /\ laco' = passo.laco
                /\ secoes' = [secoes EXCEPT ![idx] = concluida]
                /\ saida' = CriarOutput(concluida, passo.laco.convergiu)
                /\ eventos' = Append(eventos, Evento("retorno", "revisar", fase, idx))
                /\ pc' = "secao_fim"
                /\ UNCHANGED <<falha, resultado>>
    /\ UNCHANGED <<entrada, interromper, nFases, modo, statusTexto, fase, idx, respostas,
                   relatorios, excecao, notificacoes, desvios>>

\* executar has returned to the loop over the sections: its locals are
\* gone and its result is dropped (await uc_revisar.executar(secao, texto)).
RetornoRevisao ==
    /\ UNCHANGED varsOutros
    /\ pc = "secao_fim"
    /\ LET prox == ProximaRevisao(fase, idx)
       IN  IF prox[2] # 0
           THEN fase' = prox[1] /\ idx' = prox[2] /\ pc' = "secao"
           ELSE fase' = fase /\ idx' = idx /\ pc' = "fase_fim"
    /\ laco' = LacoInicial
    /\ respostas' = <<>>
    /\ saida' = SemSaida
    /\ UNCHANGED <<entrada, interromper, nFases, modo, statusTexto, secoes,
                   relatorios, falha, resultado, excecao, eventos,
                   notificacoes, desvios>>

\* End of phase fase_idx: its last notification, then the next phase or,
\* after the last one, the next stage.
FimFase ==
    /\ UNCHANGED varsOutros
    /\ pc = "fase_fim"
    /\ notificacoes' = Append(notificacoes, PctFimFase(fase))
    /\ IF fase < nFases
       THEN fase' = fase + 1 /\ pc' = "revisao" /\ eventos' = eventos
       ELSE /\ fase' = fase
            /\ pc' = ProximaEtapa("revisao")
            /\ eventos' = Append(eventos, Evento("fim", "revisao", 0, 0))
    /\ UNCHANGED <<entrada, interromper, nFases, modo, statusTexto, secoes, idx, laco,
                   respostas, saida, relatorios, falha, resultado, excecao, desvios>>

\* Etapa 4, start: notification 60 (and 70 at once for a document without
\* sections).
IniciarValidacao ==
    /\ UNCHANGED varsOutros
    /\ pc = "validacao"
    /\ IF Len(secoes) > 0
       THEN /\ notificacoes' = Append(notificacoes, 60)
            /\ eventos' = Append(eventos, Evento("inicio", "validacao", 0, 0))
            /\ idx' = 1
            /\ pc' = "validar"
       ELSE /\ notificacoes' = notificacoes \o <<60, 70>>
            /\ eventos' = eventos \o <<Evento("inicio", "validacao", 0, 0),
                                       Evento("fim", "validacao", 0, 0)>>
            /\ idx' = 0
            /\ pc' = ProximaEtapa("validacao")
    /\ UNCHANGED <<entrada, interromper, nFases, modo, statusTexto, secoes, fase, laco,
                   respostas, saida, relatorios, falha, resultado, excecao, desvios>>

\* Etapa 4, section idx: agente_validador.processar(secao, config_val);
\* after the last section, notification 70.
ValidarSecao ==
    /\ UNCHANGED varsOutros
    /\ pc = "validar"
    /\ \/ /\ CapturarExcecao("falha_validacao")
          /\ notificacoes' = Append(notificacoes, PctValidacao(idx, Len(secoes)))
          /\ eventos' = Append(eventos, Evento("chamada", "validar", 0, idx))
          /\ UNCHANGED idx
       \/ /\ idx < Len(secoes)
          /\ notificacoes' = Append(notificacoes, PctValidacao(idx, Len(secoes)))
          /\ eventos' = Append(eventos, Evento("chamada", "validar", 0, idx))
          /\ idx' = idx + 1
          /\ UNCHANGED <<pc, falha, resultado>>
       \/ /\ idx = Len(secoes)
          /\ notificacoes' = notificacoes \o <<PctValidacao(idx, Len(secoes)), 70>>
          /\ eventos' = eventos \o <<Evento("chamada", "validar", 0, idx),
                                     Evento("fim", "validacao", 0, 0)>>
          /\ pc' = ProximaEtapa("validacao")
          /\ UNCHANGED <<idx, falha, resultado>>
    /\ UNCHANGED <<entrada, interromper, nFases, modo, statusTexto, secoes, fase, laco,
                   respostas, saida, relatorios, excecao, desvios>>

\* Etapa 5: VerificarConsistenciaUseCase.executar(texto)
VerificarConsistencia ==
    /\ UNCHANGED varsOutros
    /\ pc = "consistencia"
    /\ \/ /\ CapturarExcecao("falha_consistencia")
          /\ notificacoes' = Append(notificacoes, 72)
          /\ eventos' = Append(eventos, Evento("inicio", "consistencia", 0, 0))
       \/ /\ notificacoes' = notificacoes \o <<72, 78>>
          /\ eventos' = eventos \o <<Evento("inicio", "consistencia", 0, 0),
                                     Evento("fim", "consistencia", 0, 0)>>
          /\ pc' = ProximaEtapa("consistencia")
          /\ UNCHANGED <<falha, resultado>>
    /\ UNCHANGED <<entrada, interromper, nFases, modo, statusTexto, secoes, fase, idx,
                   laco, respostas, saida, relatorios, excecao, desvios>>

\* Etapa 6: agentes_revisores[0].gerar_sintese(contexto_sintese)
GerarSintese ==
    /\ UNCHANGED varsOutros
    /\ pc = "sintese"
    /\ \/ /\ CapturarExcecao("falha_sintese")
          /\ notificacoes' = Append(notificacoes, 80)
          /\ eventos' = Append(eventos, Evento("inicio", "sintese", 0, 0))
       \/ /\ notificacoes' = notificacoes \o <<80, 85>>
          /\ eventos' = eventos \o <<Evento("inicio", "sintese", 0, 0),
                                     Evento("fim", "sintese", 0, 0)>>
          /\ pc' = ProximaEtapa("sintese")
          /\ UNCHANGED <<falha, resultado>>
    /\ UNCHANGED <<entrada, interromper, nFases, modo, statusTexto, secoes, fase, idx,
                   laco, respostas, saida, relatorios, excecao, desvios>>

\* Etapa 7: _gerar_relatorios; a format without generator (ValueError) is
\* skipped, any other exception leaves the stage.
GerarRelatorios ==
    /\ UNCHANGED varsOutros
    /\ pc = "relatorio"
    /\ notificacoes' = Append(notificacoes, 87)
    /\ \/ /\ CapturarExcecao("falha_relatorio")
          /\ eventos' = Append(eventos, Evento("inicio", "relatorio", 0, 0))
          /\ UNCHANGED relatorios
       \/ /\ relatorios' \in SUBSET FormatosPedidos
          /\ eventos' = eventos \o <<Evento("inicio", "relatorio", 0, 0),
                                     Evento("fim", "relatorio", 0, 0)>>
          /\ pc' = ProximaEtapa("relatorio")
          /\ UNCHANGED <<falha, resultado>>
    /\ UNCHANGED <<entrada, interromper, nFases, modo, statusTexto, secoes, fase, idx,
                   laco, respostas, saida, excecao, desvios>>

\* texto.atualizar_status(CONCLUIDO), texto_repo.salvar(texto), notification
\* 100 and the successful result.
Persistir ==
    /\ UNCHANGED varsOutros
    /\ pc = "persistencia"
    /\ statusTexto' = "concluido"
    /\ \/ /\ CapturarExcecao("falha_persistencia")
          /\ eventos' = eventos \o <<Evento("inicio", "persistencia", 0, 0),
                                     Evento("chamada", "salvar", 0, 0)>>
          /\ UNCHANGED notificacoes
       \/ /\ eventos' = eventos \o <<Evento("inicio", "persistencia", 0, 0),
                                     Evento("chamada", "salvar", 0, 0),
                                     Evento("fim", "persistencia", 0, 0)>>
          /\ notificacoes' = Append(notificacoes, 100)
          /\ resultado' = [sucesso |-> TRUE, mensagem |-> MsgConcluido]
          /\ pc' = ProximaEtapa("persistencia")
          /\ UNCHANGED falha
    /\ UNCHANGED <<entrada, interromper, nFases, modo, secoes, fase, idx, laco,
                   respostas, saida, relatorios, excecao, desvios>>

Next ==
    \/ IniciarWorker
    \/ Parar
    \/ ProcessarTexto
    \/ ChamarExecutar
    \/ Inicio
    \/ CarregarDocumento
    \/ ExtrairTexto
    \/ IniciarFase
    \/ IniciarRevisaoSecao
    \/ AgenteResponde
    \/ TratarResposta
    \/ RetornoRevisao
    \/ FimFase
    \/ IniciarValidacao
    \/ ValidarSecao
    \/ VerificarConsistencia
    \/ GerarSintese
    \/ GerarRelatorios
    \/ Persistir

Spec == Init /\ [][Next]_vars

---------------------------------------------------------------------------
(* SpecConv: _verificar_convergencia called on bounded inputs *)

Limiares == {<<k, DenLimiar>> : k \in 1..DenLimiar}

InitConv ==
    /\ InitPipeline
    /\ InitGatewayParado
    /\ InitProvParado
    /\ InitEntParado
    /\ InitAgenteParado
    /\ cvAnterior \in 0..MaxErrosConv
    /\ cvAtual \in 0..MaxErrosConv
    /\ cvLimiar \in Limiares
    /\ cvResultado = <<>>

\* self._verificar_convergencia(erros_anterior, erros_atual, limiar)
ChamarVerificarConvergencia ==
    /\ cvResultado = <<>>
    /\ cvResultado' = <<VerificarConvergencia(cvAnterior, cvAtual, cvLimiar)>>
    /\ UNCHANGED <<cvAnterior, cvAtual, cvLimiar>>
    /\ UNCHANGED varsForaDaConv

NextConv ==
    \/ ChamarVerificarConvergencia

SpecConv == InitConv /\ [][NextConv]_vars

---------------------------------------------------------------------------
(* Properties.  Helpers over the log of events *)

Terminou == pc \in {"retornou", "levantou"}

Ocorreu(ev) == \E k \in 1..Len(eventos) : eventos[k] = ev

Vezes(ev) == Cardinality({k \in 1..Len(eventos) : eventos[k] = ev})

EhMarco(ev) == ev[1] \in {"inicio", "fim"}

\* index of the last stage boundary logged before position k (0: none)
MarcoAntes(k) ==
    LET ks == {j \in 1..(k - 1) : EhMarco(eventos[j])}
    IN  IF ks = {} THEN 0 ELSE CHOOSE j \in ks : \A m \in ks : m <= j

EtapaDaChamada(c) ==
    IF c = "revisar" THEN "revisao"
    ELSE IF c = "validar" THEN "validacao" ELSE "persistencia"

Sondagens == Cardinality({k \in 1..Len(eventos) : eventos[k][1] = "sondagem"})

EventosRevisar == SelectSeq(eventos, LAMBDA ev : ev[2] = "revisar")

\* C1: every call of OrquestradorRevisao.processar_texto returns a result
\* and raises nothing to its caller; a run that did not complete returns
\* sucesso = false with the message of the fault.  Violated: the
\* constructor call raises TypeError, which nothing catches.
C1_NuncaLevanta ==
    entrada = "orquestrador" =>
        /\ pc # "levantou"
        /\ excecao = "nenhuma"
        /\ (pc = "retornou" /\ falha # "nenhuma") =>
               (~resultado.sucesso /\ resultado.mensagem = falha)

\* C2: a run during which cancellation was signalled ends with a result of
\* sucesso = false whose message is the cancellation text, and never calls
\* texto_repo.salvar.  Violated: the run ends with TypeError and no result.
C2_CancelamentoDevolveFalha ==
    (Terminou /\ interromper) =>
        /\ pc = "retornou"
        /\ ~resultado.sucesso
        /\ resultado.mensagem = MsgInterrompido
        /\ ~Ocorreu(<<"chamada", "salvar", 0, 0>>)

\* C3: the cancel callback is polled before every stage and before every
\* section within a stage, hence at least twice in a run that got past
\* loading.  Violated: executar never polls.
C3_SondagemAntesDeCadaEtapa ==
    /\ \A k \in 1..Len(eventos) :
          (eventos[k][1] = "inicio" \/ eventos[k][1] = "chamada") =>
              (k > 1 /\ eventos[k - 1][1] = "sondagem")
    /\ Ocorreu(<<"fim", "carregamento", 0, 0>>) => Sondagens >= 2

\* C4: the stages happen one after another in the order of Etapas: a stage
\* begins only directly after the previous one has finished (the first one
\* before anything else), a stage finishes only after it began, the calls
\* of a stage happen inside it, the validator is called once per section,
\* and salvar is called only after every earlier stage has finished.
C4_EtapasEmOrdem ==
    /\ \A k \in 1..Len(eventos) :
          LET ev == eventos[k]
              m == MarcoAntes(k)
          IN  /\ ev[1] = "inicio" =>
                    IF Ordem(ev[2]) = 1
                    THEN k = 1
                    ELSE /\ m = k - 1
                         /\ eventos[m] = <<"fim", Etapas[Ordem(ev[2]) - 1], 0, 0>>
              /\ ev[1] = "fim" =>
                    (m > 0 /\ eventos[m] = <<"inicio", ev[2], 0, 0>>)
              /\ ev[1] \in {"chamada", "retorno"} =>
                    (m > 0 /\ eventos[m] = <<"inicio", EtapaDaChamada(ev[2]), 0, 0>>)
              /\ ev = <<"chamada", "salvar", 0, 0>> =>
                    \A n \in 1..(Len(Etapas) - 1) :
                        \E j \in 1..(k - 1) : eventos[j] = <<"fim", Etapas[n], 0, 0>>
    /\ Ocorreu(<<"fim", "validacao", 0, 0>>) =>
          \A s \in 1..Len(secoes) : Vezes(<<"chamada", "validar", 0, s>>) = 1
    /\ (pc = "retornou" /\ resultado.sucesso) =>
          \A n \in 1..Len(Etapas) : Vezes(<<"fim", Etapas[n], 0, 0>>) = 1

\* C4 witness: a run that succeeded on a document of two sections, with
\* both validated and the document saved.
C4_Testemunha ==
    /\ pc = "retornou"
    /\ resultado.sucesso
    /\ Len(secoes) = 2
    /\ Ocorreu(<<"chamada", "validar", 0, 2>>)
    /\ Ocorreu(<<"chamada", "salvar", 0, 0>>)

\* C5: the calls of RevisarSecaoUseCase.executar happen one at a time, each
\* returning before the next starts, in the order phase 1 on sections
\* 1..n, then phase 2 on sections 1..n, and so on over the configured
\* phases: the j-th call is the one of phase (j-1) div n + 1 on section
\* (j-1) mod n + 1.
C5_FasesESecoesEmOrdem ==
    LET R == EventosRevisar
        n == Len(secoes)
    IN  \A k \in 1..Len(R) :
            LET j == (k + 1) \div 2
            IN  /\ n > 0
                /\ (j - 1) \div n + 1 <= nFases
                /\ R[k] = <<IF k % 2 = 1 THEN "chamada" ELSE "retorno", "revisar",
                            (j - 1) \div n + 1, ((j - 1) % n) + 1>>

\* C5 witness: two phases over two sections, all four loops returned.
C5_Testemunha ==
    /\ nFases = 2
    /\ Len(secoes) = 2
    /\ Len(EventosRevisar) = 8
    /\ pc = "validacao"

\* The reference decision: converged when no error is left; not converged
\* when the previous count is zero; otherwise converged iff
\* 1 - atual/anterior < 1 - limiar, that is iff atual/anterior > limiar.
DecisaoDeReferencia(anterior, atual, limiar) ==
    \/ atual = 0
    \/ /\ anterior > 0
       /\ atual * limiar[2] > limiar[1] * anterior

\* C6: for all counts 0..MaxErrosConv and thresholds k/DenLimiar in (0,1],
\* _verificar_convergencia returns the reference decision, and an exact tie
\* (reduction rate equal to 1 - limiar) is not convergence.
C6_IgualAReferencia ==
    cvResultado # <<>> =>
        /\ cvResultado[1] = DecisaoDeReferencia(cvAnterior, cvAtual, cvLimiar)
        /\ (/\ cvAnterior > 0
            /\ cvAtual > 0
            /\ cvAtual * cvLimiar[2] = cvLimiar[1] * cvAnterior) => ~cvResultado[1]

\* C6 witness: the tie 20 -> 19 at limiar 0.95 was decided, as not converged.
C6_Testemunha ==
    /\ cvAnterior = 20
    /\ cvAtual = 19
    /\ cvLimiar = LIMIAR_CONVERGENCIA_PADRAO
    /\ cvResultado = <<FALSE>>

PrimeiraSemErros ==
    /\ Len(respostas) >= 1
    /\ respostas[1].tipo = "revisao"
    /\ respostas[1].erros = 0

\* C7: a call of executar whose first answer is a revision with zero errors
\* returns after that single agent call, with convergiu = true and
\* total_iteracoes = 1.  Violated: total_iteracoes counts the revisions of
\* the earlier phases too.
C7_PrimeiraSemErrosUmaIteracao ==
    (pc = "secao_fim" /\ PrimeiraSemErros) =>
        /\ Len(respostas) = 1
        /\ saida.convergiu
        /\ saida.total_iteracoes = 1

\* every answer a parsed revision with a positive error count that is not
\* below the one before it
NuncaDiminui(rs) ==
    \A k \in 1..Len(rs) :
        /\ rs[k].tipo = "revisao"
        /\ rs[k].erros > 0
        /\ k > 1 => rs[k].erros >= rs[k - 1].erros

\* C8 as stated: with 5 iterations allowed and an agent whose positive error
\* count never decreases, executar performs exactly 5 iterations and returns
\* convergiu = false.  Violated: the second iteration has a reduction rate
\* of at most 0, which is below 1 - limiar.
C8_CincoIteracoesSemConvergir ==
    (pc = "secao_fim" /\ NuncaDiminui(respostas)) =>
        /\ Len(respostas) = MAX_ITERACOES_PADRAO
        /\ ~saida.convergiu

\* C8 amended: with 5 iterations allowed and an agent whose positive error
\* count never decreases, executar performs exactly 2 iterations and returns
\* convergiu = true; while the loop runs it has made at most 2 agent calls.
C8_DuasIteracoesConverge ==
    /\ (pc = "secao_fim" /\ NuncaDiminui(respostas)) =>
          /\ Len(respostas) = 2
          /\ saida.convergiu
          /\ Ultima(secoes[idx].revisoes).convergiu
    /\ (pc \in {"agente", "resposta"} /\ NuncaDiminui(respostas)) =>
          Len(respostas) <= 2

\* C8 witness: a call that returned after two answers of one error each.
C8_Testemunha ==
    /\ pc = "secao_fim"
    /\ Len(respostas) = 2
    /\ NuncaDiminui(respostas)
    /\ respostas[1].erros = 1
    /\ respostas[2].erros = 1
    /\ saida.convergiu

RevisoesDaFase(s, f) ==
    {k \in 1..Len(secoes[s].revisoes) : secoes[s].revisoes[k].agente = f}

C10_RespostaInvalidaSoGastaIteracao ==
    [][(pc = "resposta" /\ Ultima(respostas).tipo = "invalida") =>
          /\ secoes'[idx].revisoes = secoes[idx].revisoes
          /\ laco'.texto_atual = laco.texto_atual
          /\ laco'.erros_anterior = laco.erros_anterior
          /\ laco'.convergiu = laco.convergiu
          /\ IF laco.i < MAX_ITERACOES_PADRAO
             THEN laco'.i = laco.i + 1 /\ pc' = "agente"
             ELSE laco'.i = laco.i /\ pc' = "secao_fim"]_vars

\* C10 witness: the loop after an unparseable answer that followed a
\* recorded revision with errors and a new text.
C10_Testemunha ==
    /\ pc = "agente"
    /\ Len(respostas) >= 2
    /\ Ultima(respostas).tipo = "invalida"
    /\ laco.erros_anterior > 0
    /\ laco.texto_atual[1] = "rev"
    /\ Len(secoes[idx].revisoes) > 0

---------------------------------------------------------------------------
(* GeminiGateway *)

MaxRPM == 2        \* requests_per_minute of the gateway
MaxChamadas == 2   \* gerar_conteudo calls on one gateway
MaxTempo == 60     \* the clock up to which time passes between calls
PassoTempo == 60   \* seconds by which time passes between calls
DuracaoRequest == 1  \* seconds a transport attempt takes

max_retries == 3
JanelaSegundos == 60

SemContexto == [nulo |-> TRUE, texto |-> <<>>]
Contexto(t) == [nulo |-> FALSE, texto |-> t]

\* Three requests; the last two differ in prompt and contexto.
Pedidos ==
    {[prompt |-> <<"a">>, contexto |-> SemContexto, temperatura |-> <<"0.3">>],
     [prompt |-> <<"a", "|", "b">>, contexto |-> SemContexto, temperatura |-> <<"0.3">>],
     [prompt |-> <<"a">>, contexto |-> Contexto(<<"b", "|", "None">>),
      temperatura |-> <<"0.3">>]}

\* f"{contexto}"
Formatar(contexto) == IF contexto.nulo THEN <<"None">> ELSE contexto.texto

\* GeminiGateway._gerar_cache_key: the string f"{prompt}|{contexto}|{temperatura}"
\* (its md5 digest is taken as one-to-one)
GerarCacheKey(p) ==
    p.prompt \o <<"|">> \o Formatar(p.contexto) \o <<"|">> \o p.temperatura

CacheTem(c, k) == \E par \in c : par[1] = k
CacheLer(c, k) == (CHOOSE par \in c : par[1] = k)[2]
\* Mutant: the text of a successful attempt is not stored.
CacheGravarNada(c, k, t) == c

CacheGravar(c, k, t) == {par \in c : par[1] # k} \cup {<<k, t>>}

\* Texts the model returns, and the text of _mock_response
Textos == {"json_a", "truncado"}
TextoMock == "[MOCK]"

\* AgenteRevisor._parsear_resposta raises InvalidResponseException or not
Parseavel(t) == t = "json_a"

\* What self._model.generate_content does in one attempt
Desfechos ==
    [tipo : {"texto"}, texto : Textos]
    \cup {[tipo |-> x, texto |-> ""] :
             x \in {"vazio", "timeout", "quota", "transiente", "chave_invalida"}}

Duracoes == {DuracaoRequest}

\* The exception _executar_request raises for an attempt ("nenhuma": it
\* returns the text)
ExcecaoDoRequest(temModelo, o) ==
    IF ~temModelo THEN "APIException"
    ELSE IF o.tipo = "texto" THEN "nenhuma"
    ELSE IF o.tipo = "timeout" THEN "TimeoutException"
    ELSE IF o.tipo = "quota" THEN "RateLimitException"
    ELSE "APIException"

\* The attempt failed for the API key: the provider refused it (400, invalid
\* key), or _inicializar_modelo left the model unset because it was missing
FalhaDeAutenticacao(temModelo, o) == ~temModelo \/ o.tipo = "chave_invalida"

\* _registrar_metricas (a response with usage_metadata of one token each way)
RegistrarMetricas(m, tempo) ==
    [m EXCEPT !.total_requests = @ + 1,
              !.tempo_total_seg = @ + tempo,
              !.total_tokens_input = @ + 1,
              !.total_tokens_output = @ + 1]

\* _mock_response: self._metricas["total_requests"] += 1.  Mutant: the mock
\* path counts tokens too, as a real response does.
MetricasAposMockComTokens(m) ==
    [m EXCEPT !.total_requests = @ + 1, !.total_tokens_input = @ + 1,
              !.total_tokens_output = @ + 1]

MetricasAposMock(m) == [m EXCEPT !.total_requests = @ + 1]

\* if cache_key in self._cache: return self._cache[cache_key] (no counter is
\* touched).  Mutant: the hit is counted as a request.
MetricasAposCacheHitContado(m) == [m EXCEPT !.total_requests = @ + 1]

MetricasAposCacheHit(m) == m

\* resetar_metricas: every int and float entry back to zero.  Mutant: only
\* the int entries are reset.
MetricasAposResetSoInteiros(m) == [MetricasZero EXCEPT !.tempo_total_seg = m.tempo_total_seg]

MetricasAposReset(m) ==
    [total_requests |-> 0, total_tokens_input |-> 0, total_tokens_output |-> 0,
     total_erros |-> 0, tempo_total_seg |-> 0]

\* The handlers of gerar_conteudo: except RateLimitException leaves the
\* metrics alone, except Exception counts an error.
ContarErro(m, e) ==
    IF e = "RateLimitException" THEN m ELSE [m EXCEPT !.total_erros = @ + 1]

\* espera = 2**tentativa.  Mutant: the same sleep after every failed attempt.
BackoffConstante(tentativa) == 2

Backoff(tentativa) == 2 ^ tentativa

\* What the last handler raises to the caller
ExcecaoFinal(e) == IF e = "RateLimitException" THEN e ELSE "APIException"

\* _verificar_rate_limit: the pruned window and the seconds to sleep
Podar(ts, t) == SelectSeq(ts, LAMBDA x : t - x < JanelaSegundos)

EsperaRateLimit(ts, t, rpm) ==
    LET podados == Podar(ts, t)
    IN  IF Len(podados) >= rpm
        THEN JanelaSegundos - (t - podados[1])
        ELSE 0

RegistroChamada(c, origem, ok, valor) ==
    [pedido |-> c.pedido, origem |-> origem, ok |-> ok,
     valor |-> valor, transportes |-> c.transportes, sonos |-> c.sonos,
     erros |-> c.erros, auth |-> c.auth, repeticao |-> c.repeticao,
     limpou |-> c.limpou, inicio |-> c.inicio]

\* except InvalidResponseException: self._agente._gateway.limpar_cache().
\* Mutant: the handler drops only the entry of the request that failed.
CacheAposRespostaInvalidaSoAChave(c, k) == {par \in c : par[1] # k}

CacheAposRespostaInvalida(c, k) == {}

\* A gateway just built: GeminiGateway.__init__ (in mock mode the model is
\* not initialised; otherwise it is unless the key or the library is missing)
InitGateway ==
    /\ InitPipeline
    /\ nFases = 0
    /\ InitConvParado
    /\ InitProvParado
    /\ InitEntParado
    /\ InitAgenteParado
    /\ gwPc = "ocioso"
    /\ modo_mock \in BOOLEAN
    /\ model \in BOOLEAN
    /\ modo_mock => ~model
    /\ requests_per_minute \in 1..MaxRPM
    /\ cache = {}
    /\ metricas = MetricasZero
    /\ request_timestamps = <<>>
    /\ agora = 0
    /\ chamada = SemChamada
    /\ historico = <<>>
    /\ limpou = FALSE
    /\ repetir = PedidoNulo

\* gerar_conteudo up to its first await: the mock path, the cache hit, or
\* the miss that goes on to the rate limit.
GerarConteudo ==
    /\ gwPc = "ocioso"
    /\ Len(historico) < MaxChamadas
    /\ \E p \in Pedidos :
          LET c == [SemChamada EXCEPT !.pedido = p, !.repeticao = (repetir = p),
                                      !.limpou = limpou, !.inicio = agora]
              k == GerarCacheKey(p)
          IN  IF modo_mock
              THEN /\ metricas' = MetricasAposMock(metricas)
                   /\ historico' = Append(historico,
                                          RegistroChamada(c, "mock", TRUE, TextoMock))
                   /\ UNCHANGED <<gwPc, chamada>>
              ELSE IF CacheTem(cache, k)
              THEN /\ historico' = Append(historico,
                                          RegistroChamada(c, "cache", TRUE,
                                                          CacheLer(cache, k)))
                   /\ metricas' = MetricasAposCacheHit(metricas)
                   /\ UNCHANGED <<gwPc, chamada>>
              ELSE /\ gwPc' = "limite"
                   /\ chamada' = c
                   /\ UNCHANGED <<historico, metricas>>
    /\ repetir' = PedidoNulo
    /\ limpou' = FALSE
    /\ UNCHANGED <<modo_mock, model, requests_per_minute, cache, request_timestamps,
                   agora>>
    /\ UNCHANGED varsForaDoGateway

\* await self._verificar_rate_limit(), once per call, before the attempts
VerificarRateLimit ==
    /\ gwPc = "limite"
    /\ LET espera == EsperaRateLimit(request_timestamps, agora, requests_per_minute)
       IN  /\ request_timestamps' = Podar(request_timestamps, agora)
           /\ IF espera > 0
              THEN /\ agora' = agora + espera
                   /\ chamada' = [chamada EXCEPT !.sonos = Append(@, <<"limite", espera>>),
                                                 !.tentativa = 1,
                                                 !.verificacoes = @ + 1]
              ELSE /\ agora' = agora
                   /\ chamada' = [chamada EXCEPT !.tentativa = 1,
                                                 !.verificacoes = @ + 1]
    /\ gwPc' = "tentativa"
    /\ UNCHANGED <<modo_mock, model, requests_per_minute, cache, metricas, historico,
                   limpou, repetir>>
    /\ UNCHANGED varsForaDoGateway

\* One pass of the retry loop: _executar_request and the handler of what it
\* raises, the backoff sleep included.
ExecutarRequest ==
    /\ gwPc = "tentativa"
    /\ \E o \in Desfechos : \E d \in Duracoes \cup {0} :
          LET e == ExcecaoDoRequest(model, o)
              fim == agora + d
              respondeu == model /\ o.tipo \in {"texto", "vazio"}
              medidas == IF respondeu THEN RegistrarMetricas(metricas, d) ELSE metricas
              c == [chamada EXCEPT !.transportes = IF model THEN @ + 1 ELSE @,
                                   !.erros = IF e \in {"nenhuma", "RateLimitException"}
                                             THEN @ ELSE @ + 1,
                                   !.auth = @ \/ FalhaDeAutenticacao(model, o)]
          IN  /\ model => d \in Duracoes
              /\ ~model => (o.tipo = "transiente" /\ d = 0)
              /\ request_timestamps' = IF respondeu
                                       THEN Append(request_timestamps, fim)
                                       ELSE request_timestamps
              /\ IF e = "nenhuma"
                 THEN /\ cache' = CacheGravar(cache, GerarCacheKey(chamada.pedido), o.texto)
                      /\ metricas' = medidas
                      /\ agora' = fim
                      /\ historico' = Append(historico,
                                             RegistroChamada(c, "transporte", TRUE, o.texto))
                      /\ chamada' = SemChamada
                      /\ gwPc' = "ocioso"
                 ELSE IF chamada.tentativa < max_retries
                 THEN /\ metricas' = ContarErro(medidas, e)
                      /\ agora' = fim + Backoff(chamada.tentativa)
                      /\ chamada' = [c EXCEPT !.tentativa = @ + 1,
                                              !.sonos = Append(@, <<"backoff",
                                                                    Backoff(chamada.tentativa)>>)]
                      /\ UNCHANGED <<cache, historico, gwPc>>
                 ELSE /\ metricas' = ContarErro(medidas, e)
                      /\ agora' = fim
                      /\ historico' = Append(historico,
                                             RegistroChamada(c, "transporte", FALSE,
                                                             ExcecaoFinal(e)))
                      /\ chamada' = SemChamada
                      /\ gwPc' = "ocioso"
                      /\ UNCHANGED cache
    /\ UNCHANGED <<modo_mock, model, requests_per_minute, limpou, repetir>>
    /\ UNCHANGED varsForaDoGateway

\* _executar_request when the transport never answers: the await of
\* asyncio.to_thread(self._model.generate_content, ...) is not wrapped in any
\* timeout (self._timeout is only written to the log), so the attempt stays
\* inside it.
TransporteNaoResponde ==
    /\ gwPc = "tentativa"
    /\ model
    /\ gwPc' = "aguardando"
    /\ chamada' = [chamada EXCEPT !.transportes = @ + 1]
    /\ UNCHANGED <<modo_mock, model, requests_per_minute, cache, metricas,
                   request_timestamps, agora, historico, limpou, repetir>>
    /\ UNCHANGED varsForaDoGateway

\* GeminiGateway.limpar_cache
LimparCache ==
    /\ gwPc = "ocioso"
    /\ Len(historico) < MaxChamadas
    /\ cache' = {}
    /\ limpou' = TRUE
    /\ UNCHANGED <<gwPc, modo_mock, model, requests_per_minute, metricas,
                   request_timestamps, agora, chamada, historico, repetir>>
    /\ UNCHANGED varsForaDoGateway

\* GeminiGateway.resetar_metricas
ResetarMetricas ==
    /\ gwPc = "ocioso"
    /\ Len(historico) < MaxChamadas
    /\ metricas' = MetricasAposReset(metricas)
    /\ UNCHANGED <<gwPc, modo_mock, model, requests_per_minute, cache,
                   request_timestamps, agora, chamada, historico, limpou, repetir>>
    /\ UNCHANGED varsForaDoGateway

\* RevisarSecaoUseCase.executar, except InvalidResponseException: the text
\* the gateway just returned to the agent did not parse; the loop clears the
\* gateway's cache and goes to the next iteration, whose request is the same.
LacoRespostaInvalida ==
    /\ gwPc = "ocioso"
    /\ Len(historico) > 0
    /\ ~limpou
    /\ Ultima(historico).ok
    /\ ~Parseavel(Ultima(historico).valor)
    /\ cache' = CacheAposRespostaInvalida(cache,
                                          GerarCacheKey(Ultima(historico).pedido))
    /\ limpou' = TRUE
    /\ repetir' = Ultima(historico).pedido
    /\ UNCHANGED <<gwPc, modo_mock, model, requests_per_minute, metricas,
                   request_timestamps, agora, chamada, historico>>
    /\ UNCHANGED varsForaDoGateway

\* Time passes between two calls
PassarTempo ==
    /\ gwPc = "ocioso"
    /\ Len(historico) < MaxChamadas
    /\ agora + PassoTempo <= MaxTempo
    /\ agora' = agora + PassoTempo
    /\ UNCHANGED <<gwPc, modo_mock, model, requests_per_minute, cache, metricas,
                   request_timestamps, chamada, historico, limpou, repetir>>
    /\ UNCHANGED varsForaDoGateway

NextGateway ==
    \/ GerarConteudo
    \/ VerificarRateLimit
    \/ ExecutarRequest
    \/ TransporteNaoResponde
    \/ LimparCache
    \/ ResetarMetricas
    \/ LacoRespostaInvalida
    \/ PassarTempo

SpecGateway == InitGateway /\ [][NextGateway]_vars

\* The event loop runs every coroutine that can continue: a call in progress
\* takes its next step whenever it has one.
SpecGatewayJusto ==
    /\ SpecGateway
    /\ WF_vars(VerificarRateLimit)
    /\ WF_vars(ExecutarRequest \/ TransporteNaoResponde)

---------------------------------------------------------------------------
(* SpecProvedores: gerar_conteudo of GeminiGateway, GroqGateway and        *)
(* OpenRouterGateway, each called once on a fresh gateway (empty cache, no *)
(* request in the window) whose transport behaves as pvDesfechos says.     *)

Provedores == {"gemini", "groq", "openrouter"}

\* The summary of a finished call
Resumo(ok, valor, transportes, sonos, m, cacheou) ==
    [ok |-> ok, valor |-> valor, transportes |-> transportes, sonos |-> sonos,
     metricas |-> m, cacheou |-> cacheou]

\* GeminiGateway.gerar_conteudo from attempt `tentativa` on, with the
\* counters m and the backoff sleeps made so far
RECURSIVE LacoGemini(_, _, _, _)
LacoGemini(os, tentativa, m, sonos) ==
    LET o == os[tentativa]
        e == ExcecaoDoRequest(TRUE, o)
        medidas == IF o.tipo \in {"texto", "vazio"}
                   THEN RegistrarMetricas(m, DuracaoRequest) ELSE m
    IN  IF e = "nenhuma"
        THEN Resumo(TRUE, o.texto, tentativa, sonos, medidas, TRUE)
        ELSE IF tentativa < max_retries
        THEN LacoGemini(os, tentativa + 1, ContarErro(medidas, e),
                        Append(sonos, Backoff(tentativa)))
        ELSE Resumo(FALSE, ExcecaoFinal(e), tentativa, sonos, ContarErro(medidas, e),
                    FALSE)

\* The except clauses of GroqGateway.gerar_conteudo: RateLimitError,
\* AuthenticationError, APIConnectionError, APIError, Exception (an empty
\* response raises APIException inside the try)
ExcecaoGroq(o) ==
    IF o.tipo = "quota" THEN "RateLimitException"
    ELSE IF o.tipo = "timeout" THEN "TimeoutException"
    ELSE "APIException"

\* The status checks and except clauses of OpenRouterGateway.gerar_conteudo:
\* 401, 429, 402, >= 400, empty choices or content, httpx.TimeoutException,
\* httpx.ConnectError, Exception
ExcecaoOpenRouter(o) ==
    IF o.tipo = "quota" THEN "RateLimitException"
    ELSE IF o.tipo = "timeout" THEN "TimeoutException"
    ELSE "APIException"

\* GroqGateway / OpenRouterGateway.gerar_conteudo on a cache miss: one
\* invocation of the transport; a text is counted (requests, seconds,
\* tokens), cached and returned; anything else adds one to total_erros and
\* raises e.
ChamadaUnica(o, e) ==
    IF o.tipo = "texto"
    THEN Resumo(TRUE, o.texto, 1, <<>>, RegistrarMetricas(MetricasZero, DuracaoRequest),
                TRUE)
    ELSE Resumo(FALSE, e, 1, <<>>, [MetricasZero EXCEPT !.total_erros = @ + 1], FALSE)

InitProvedores ==
    /\ InitPipeline
    /\ nFases = 0
    /\ InitConvParado
    /\ InitGatewayParado
    /\ InitEntParado
    /\ InitAgenteParado
    /\ pvDesfechos \in [1..max_retries -> Desfechos]
    /\ pvChamadas = [p \in Provedores |-> <<>>]

ChamarGemini ==
    /\ pvChamadas["gemini"] = <<>>
    /\ pvChamadas' = [pvChamadas EXCEPT
                         !["gemini"] = <<LacoGemini(pvDesfechos, 1, MetricasZero, <<>>)>>]
    /\ UNCHANGED <<pvDesfechos, varsForaDosProvedores>>

ChamarGroq ==
    /\ pvChamadas["groq"] = <<>>
    /\ pvChamadas' = [pvChamadas EXCEPT
                         !["groq"] = <<ChamadaUnica(pvDesfechos[1],
                                                    ExcecaoGroq(pvDesfechos[1]))>>]
    /\ UNCHANGED <<pvDesfechos, varsForaDosProvedores>>

ChamarOpenRouter ==
    /\ pvChamadas["openrouter"] = <<>>
    /\ pvChamadas' = [pvChamadas EXCEPT
                         !["openrouter"] = <<ChamadaUnica(pvDesfechos[1],
                                                          ExcecaoOpenRouter(pvDesfechos[1]))>>]
    /\ UNCHANGED <<pvDesfechos, varsForaDosProvedores>>

NextProvedores ==
    \/ ChamarGemini
    \/ ChamarGroq
    \/ ChamarOpenRouter

SpecProvedores == InitProvedores /\ [][NextProvedores]_vars

---------------------------------------------------------------------------
(* SpecSecao: Secao.adicionar_revisao and Secao.obter_todos_erros.  A     *)
(* string is the sequence of its characters; " " is a whitespace one.     *)

MaxRevisoesSecao == 2     \* revisions of the section
MaxErrosPorRevisao == 2   \* errors of one revision

TiposErro == {"gramatical", "tecnico"}
Trechos == {<<"a", " ", "b">>, <<"a", " ", " ", "b">>, <<" ", "a", " ", "b">>}
Descricoes == {"D1", "D2"}

\* The Erro objects the agents can report
Erros == [tipo : TiposErro, trecho_original : Trechos, descricao : Descricoes]

\* str.split(): the maximal runs of characters that are not whitespace
RECURSIVE SplitDe(_, _, _)
SplitDe(str, palavra, palavras) ==
    LET fechadas == IF palavra = <<>> THEN palavras ELSE Append(palavras, palavra)
    IN  IF str = <<>> THEN fechadas
        ELSE IF Head(str) = " " THEN SplitDe(Tail(str), <<>>, fechadas)
        ELSE SplitDe(Tail(str), Append(palavra, Head(str)), palavras)

Split(str) == SplitDe(str, <<>>, <<>>)

\* " ".join(palavras)
RECURSIVE Join(_)
Join(palavras) ==
    IF palavras = <<>> THEN <<>>
    ELSE IF Len(palavras) = 1 THEN palavras[1]
    ELSE palavras[1] \o <<" ">> \o Join(Tail(palavras))

\* trecho_norm = " ".join(erro.trecho_original.split())
NormalizarTrecho(trecho) == Join(Split(trecho))

\* chave = (erro.tipo.value, trecho_norm).  Mutant: the snippet alone.
ChaveErroSoTrecho(erro) == <<NormalizarTrecho(erro.trecho_original)>>

ChaveErro(erro) == <<erro.tipo, NormalizarTrecho(erro.trecho_original)>>

\* for revisao in self.revisoes: for erro in revisao.erros: the errors in
\* the order the two loops visit them
RECURSIVE ErrosEmOrdem(_)
ErrosEmOrdem(revisoes) ==
    IF revisoes = <<>> THEN <<>> ELSE Head(revisoes) \o ErrosEmOrdem(Tail(revisoes))

\* The body of the loops: an error whose key is new is appended
RECURSIVE Deduplicar(_, _, _)
Deduplicar(erros, unicos, todos_erros) ==
    IF erros = <<>> THEN todos_erros
    ELSE LET chave == ChaveErro(Head(erros))
         IN  IF chave \notin unicos
             THEN Deduplicar(Tail(erros), unicos \cup {chave},
                             Append(todos_erros, Head(erros)))
             ELSE Deduplicar(Tail(erros), unicos, todos_erros)

\* Secao.obter_todos_erros
ObterTodosErros(revisoes) == Deduplicar(ErrosEmOrdem(revisoes), {}, <<>>)

ListasDeErros ==
    UNION {[1..n -> Erros] : n \in 0..MaxErrosPorRevisao}

InitSecao ==
    /\ InitPipeline
    /\ nFases = 0
    /\ InitConvParado
    /\ InitGatewayParado
    /\ InitProvParado
    /\ InitEntParado
    /\ InitAgenteParado

\* secao.adicionar_revisao(revisao), for a revision holding the errors es
AdicionarRevisaoSecao ==
    /\ Len(seRevisoes) < MaxRevisoesSecao
    /\ \E es \in ListasDeErros : seRevisoes' = Append(seRevisoes, es)
    /\ seErros' = <<>>
    /\ UNCHANGED varsDoc
    /\ UNCHANGED varsForaDasEntidades

\* secao.obter_todos_erros()
ChamarObterTodosErros ==
    /\ seErros = <<>>
    /\ seErros' = <<ObterTodosErros(seRevisoes)>>
    /\ UNCHANGED <<seRevisoes, varsDoc>>
    /\ UNCHANGED varsForaDasEntidades

NextSecao ==
    \/ AdicionarRevisaoSecao
    \/ ChamarObterTodosErros

SpecSecao == InitSecao /\ [][NextSecao]_vars

---------------------------------------------------------------------------
(* TextoEstruturado: the section list, its title index, the status and the
   history.  A dict is the set of its (key, value) pairs, an Optional[Secao]
   is <<>> (None) or <<s>>; the timestamp of a history entry is left out. *)

MaxOperacoes == 4
Titulos == {"A", "B"}
Conteudos == {"x", "y"}

\* the sections a caller may pass: two titles, two bodies each
SecoesPossiveis == [titulo : Titulos, conteudo_original : Conteudos]

StatusTexto ==
    {"pendente", "processando", "revisando", "validando",
     "concluido", "erro", "cancelado", "pausado"}

\* _adicionar_ao_historico(evento, detalhes): the entry appended
EntradaHistorico(evento, detalhes) ==
    [evento |-> evento, detalhes |-> detalhes]

\* the keys of self._secoes_index
TitulosDoIndex(index) == {e[1] : e \in index}

TituloNuncaNoIndex(index, titulo) == FALSE

\* secao.titulo in self._secoes_index
TituloNoIndex(index, titulo) == titulo \in TitulosDoIndex(index)

\* self._secoes_index.get(titulo)
ObterSecaoPorTitulo(index, titulo) ==
    IF TituloNoIndex(index, titulo)
    THEN <<(CHOOSE e \in index : e[1] = titulo)[2]>>
    ELSE <<>>

\* self._secoes_index[secao.titulo] = secao
IndexCom(index, secao) ==
    {e \in index : e[1] # secao.titulo} \cup {<<secao.titulo, secao>>}

\* del self._secoes_index[titulo]
IndexSem(index, titulo) == {e \in index : e[1] # titulo}

\* list.remove(x): the list without its first element equal to x
RECURSIVE ListaSem(_, _)
ListaSem(lista, x) ==
    IF lista = <<>> THEN <<>>
    ELSE IF Head(lista) = x THEN Tail(lista)
    ELSE <<Head(lista)>> \o ListaSem(Tail(lista), x)

InitDocumento ==
    /\ InitPipeline
    /\ nFases = 0
    /\ InitConvParado
    /\ InitGatewayParado
    /\ InitProvParado
    /\ InitEntParado
    /\ InitAgenteParado

\* texto.adicionar_secao(secao)
AdicionarSecao ==
    /\ Len(dcHistorico) < MaxOperacoes
    /\ \E arg \in {<<>>} \cup {<<s>> : s \in SecoesPossiveis} :
        /\ dcChamada' = [op |-> "adicionar_secao", secao |-> arg, texto |-> ""]
        /\ IF arg = <<>>
           THEN /\ dcExcecao' = "ValueError"
                /\ UNCHANGED <<dcSecoes, dcIndex, dcHistorico>>
           ELSE LET secao == arg[1] IN
                IF TituloNoIndex(dcIndex, secao.titulo)
                THEN /\ dcExcecao' = "SecaoDuplicadaException"
                     /\ UNCHANGED <<dcSecoes, dcIndex, dcHistorico>>
                ELSE /\ dcSecoes' = Append(dcSecoes, secao)
                     /\ dcIndex' = IndexCom(dcIndex, secao)
                     /\ dcHistorico' = Append(dcHistorico,
                            EntradaHistorico("Seção adicionada",
                                {<<"titulo", secao.titulo>>}))
                     /\ dcExcecao' = "nenhuma"
    /\ UNCHANGED <<dcStatus, seRevisoes, seErros>>
    /\ UNCHANGED varsForaDasEntidades

\* texto.remover_secao(titulo)
RemoverSecao ==
    /\ Len(dcHistorico) < MaxOperacoes
    /\ \E titulo \in Titulos :
        LET secao == ObterSecaoPorTitulo(dcIndex, titulo) IN
        /\ dcChamada' = [op |-> "remover_secao", secao |-> <<>>, texto |-> titulo]
        /\ IF secao = <<>>
           THEN /\ dcExcecao' = "SecaoNaoEncontradaException"
                /\ UNCHANGED <<dcSecoes, dcIndex, dcHistorico>>
           ELSE IF \A i \in 1..Len(dcSecoes) : dcSecoes[i] # secao[1]
           THEN /\ dcExcecao' = "ValueError"
                /\ UNCHANGED <<dcSecoes, dcIndex, dcHistorico>>
           ELSE /\ dcSecoes' = ListaSem(dcSecoes, secao[1])
                /\ dcIndex' = IndexSem(dcIndex, titulo)
                /\ dcHistorico' = Append(dcHistorico,
                       EntradaHistorico("Seção removida", {<<"titulo", titulo>>}))
                /\ dcExcecao' = "nenhuma"
    /\ UNCHANGED <<dcStatus, seRevisoes, seErros>>
    /\ UNCHANGED varsForaDasEntidades

\* texto.atualizar_status(novo_status)
AtualizarStatus ==
    /\ Len(dcHistorico) < MaxOperacoes
    /\ \E novo_status \in StatusTexto :
        /\ dcChamada' = [op |-> "atualizar_status", secao |-> <<>>, texto |-> novo_status]
        /\ dcStatus' = novo_status
        /\ dcHistorico' = Append(dcHistorico,
               EntradaHistorico("Status atualizado",
                   {<<"anterior", dcStatus>>, <<"novo", novo_status>>}))
    /\ dcExcecao' = "nenhuma"
    /\ UNCHANGED <<dcSecoes, dcIndex, seRevisoes, seErros>>
    /\ UNCHANGED varsForaDasEntidades

NextDocumento ==
    \/ AdicionarSecao
    \/ RemoverSecao
    \/ AtualizarStatus

SpecDocumento == InitDocumento /\ [][NextDocumento]_vars

---------------------------------------------------------------------------
(* SpecAgente: AgenteRevisor.processar on one answer of the model.  The    *)
(* answer is a text that is empty, not JSON, or the JSON value dados; a    *)
(* JSON object is given by the form of its "erros" and "texto_revisado"    *)
(* members, an entry of "erros" by the form of the members the parser      *)
(* reads.                                                                  *)

MaxAchados == 2    \* entries of "erros" in one answer

\* an entry of "erros": a JSON object, or a JSON string
Achados ==
    [forma : {"objeto"},
     tipo : {"ausente", "texto", "numero", "nulo"},
     justificativa : {"ausente", "texto", "numero"},
     severidade : {"ausente", "inteiro", "texto", "nulo"}]
    \cup {[forma |-> "texto", tipo |-> "ausente", justificativa |-> "ausente",
           severidade |-> "ausente"]}

SemErros(forma) == [forma |-> forma, itens |-> <<>>]

\* the "erros" member: absent, null, a number, the empty string, or a list
CamposErros ==
    {SemErros(f) : f \in {"ausente", "nulo", "numero", "texto_vazio"}}
    \cup {[forma |-> "lista", itens |-> itens] :
             itens \in UNION {[1..n -> Achados] : n \in 0..MaxAchados}}

DadosSemMembros(forma) ==
    [forma |-> forma, erros |-> SemErros("ausente"), texto_revisado |-> "ausente"]

\* what json.loads returns: an object, or a list or a number
Dados ==
    [forma : {"objeto"}, erros : CamposErros,
     texto_revisado : {"ausente", "texto", "numero", "nulo"}]
    \cup {DadosSemMembros("lista"), DadosSemMembros("numero")}

RespostasDoModelo ==
    [texto : {"json"}, dados : Dados]
    \cup {[texto |-> t, dados |-> DadosSemMembros("nenhum")] : t \in {"vazio", "truncado"}}

Levanta(e) == [tipo |-> e, erros |-> 0, texto_saida |-> "nenhum"]

\* except (json.JSONDecodeError, KeyError): raise InvalidResponseException;
\* any other exception leaves _parsear_resposta as it is
ExcecaoAposExcept(e) ==
    IF e \in {"JSONDecodeError", "KeyError"} THEN "InvalidResponseException" ELSE e

\* The body of the loop over dados.get("erros", []) for one entry: what it
\* raises ("nenhuma": the Erro and the Correcao are added).  erro_data.get
\* needs a dict, tipo_str.lower() a string, max(1, severidade) a number and
\* Erro.__post_init__ calls descricao.strip().
ExcecaoDoAchado(erro_data) ==
    IF erro_data.forma # "objeto" THEN "AttributeError"
    ELSE IF erro_data.tipo \in {"numero", "nulo"} THEN "AttributeError"
    ELSE IF erro_data.severidade \in {"texto", "nulo"} THEN "TypeError"
    ELSE IF erro_data.justificativa = "numero" THEN "AttributeError"
    ELSE "nenhuma"

\* the loop: the exception that ended it and the number of Erro added
RECURSIVE ExtrairErros(_, _)
ExtrairErros(itens, n) ==
    IF itens = <<>> THEN [excecao |-> "nenhuma", erros |-> n]
    ELSE LET e == ExcecaoDoAchado(Head(itens))
         IN  IF e # "nenhuma" THEN [excecao |-> e, erros |-> n]
             ELSE ExtrairErros(Tail(itens), n + 1)

\* AgenteRevisor._parsear_resposta: the Revisao returned or the exception
ParsearResposta(resposta) ==
    IF resposta.texto # "json" THEN Levanta(ExcecaoAposExcept("JSONDecodeError"))
    ELSE IF resposta.dados.forma # "objeto"
    THEN Levanta(ExcecaoAposExcept("AttributeError"))
    ELSE IF resposta.dados.erros.forma \in {"nulo", "numero"}
    THEN Levanta(ExcecaoAposExcept("TypeError"))
    ELSE LET r == ExtrairErros(resposta.dados.erros.itens, 0)
         IN  IF r.excecao # "nenhuma" THEN Levanta(ExcecaoAposExcept(r.excecao))
             ELSE [tipo |-> "Revisao", erros |-> r.erros,
                   texto_saida |-> IF resposta.dados.texto_revisado = "ausente"
                                   THEN "original"
                                   ELSE resposta.dados.texto_revisado]

\* AgenteRevisor.processar: gerar_conteudo, then _parsear_resposta.  The
\* gateway never returns an empty text: it raises APIException for it once
\* its attempts are spent.
Processar(resposta) ==
    IF resposta.texto = "vazio" THEN Levanta("APIException")
    ELSE ParsearResposta(resposta)

InitAgente ==
    /\ InitPipeline
    /\ nFases = 0
    /\ InitConvParado
    /\ InitGatewayParado
    /\ InitProvParado
    /\ InitEntParado
    /\ agResposta \in RespostasDoModelo
    /\ agResultado = <<>>

\* await self._agente.processar(secao, config)
ChamarProcessar ==
    /\ agResultado = <<>>
    /\ agResultado' = <<Processar(agResposta)>>
    /\ UNCHANGED agResposta
    /\ UNCHANGED varsForaDoAgente

NextAgente == ChamarProcessar

SpecAgente == InitAgente /\ [][NextAgente]_vars

---------------------------------------------------------------------------
(* Properties of the gateway *)

\* every finished call that repeated a request after a parse failure, on a
\* gateway that is not in mock mode, went to the transport
RepeticoesVaoAoTransporte ==
    \A k \in 1..Len(historico) :
        (historico[k].repeticao /\ ~modo_mock) =>
            /\ historico[k].origem = "transporte"
            /\ historico[k].transportes >= 1

ParDeChamadasIguais(j, k) ==
    /\ j < k
    /\ historico[j].pedido = historico[k].pedido
    /\ historico[j].ok
    /\ \A m \in (j + 1)..k : ~historico[m].limpou

\* C12 as stated: two calls with identical arguments and no limpar_cache
\* between them return the same text, and the transport is invoked at most
\* once for the pair.  Violated: the first call retries a failed attempt.
C12_UmTransportePorPar ==
    \A j, k \in 1..Len(historico) :
        (ParDeChamadasIguais(j, k) /\ historico[k].ok) =>
            /\ historico[j].valor = historico[k].valor
            /\ historico[j].transportes + historico[k].transportes <= 1

\* C12 amended: after a call that returned a text, a call with identical
\* arguments and no limpar_cache in between returns the same text without
\* invoking the transport (from the cache, or from the mock path in mock
\* mode); the transport was invoked only by the attempts of the first call.
C12_SegundaChamadaSemTransporte ==
    \A j, k \in 1..Len(historico) :
        ParDeChamadasIguais(j, k) =>
            /\ historico[k].ok
            /\ historico[k].valor = historico[j].valor
            /\ historico[k].transportes = 0
            /\ historico[k].sonos = <<>>
            /\ historico[k].origem = IF modo_mock THEN "mock" ELSE "cache"

\* C12 witness: the first call got its text on the second attempt, the
\* second call was answered from the cache.
C12_Testemunha ==
    /\ Len(historico) = 2
    /\ ParDeChamadasIguais(1, 2)
    /\ historico[1].origem = "transporte"
    /\ historico[1].transportes = 2
    /\ historico[2].origem = "cache"
    /\ historico[2].valor = historico[1].valor

\* the calls before call k that reached the transport less than 60 seconds
\* before call k began
ChamadasNaJanela(k) ==
    {j \in 1..(k - 1) :
        /\ historico[j].transportes >= 1
        /\ historico[k].inicio - historico[j].inicio < JanelaSegundos}

EsperasDeLimite(k) ==
    {n \in 1..Len(historico[k].sonos) : historico[k].sonos[n][1] = "limite"}

\* C13: a call that goes to the transport when requests_per_minute calls
\* have reached the transport inside the window waits exactly once for the
\* rate limit, for a time within the window, and then invokes the
\* transport; a call with fewer calls before it in the window does not
\* wait.  Violated: only attempts that got a response are counted.
C13_UmaEsperaNaChamadaSeguinte ==
    \A k \in 1..Len(historico) :
        (historico[k].origem = "transporte" /\ model) =>
            /\ historico[k].transportes >= 1
            /\ Cardinality(ChamadasNaJanela(k)) = requests_per_minute =>
                  /\ Cardinality(EsperasDeLimite(k)) = 1
                  /\ \A n \in EsperasDeLimite(k) :
                        /\ historico[k].sonos[n][2] > 0
                        /\ historico[k].sonos[n][2] <= JanelaSegundos
            /\ Cardinality(ChamadasNaJanela(k)) < requests_per_minute =>
                  EsperasDeLimite(k) = {}

\* the backoff sleeps of call k, in order
SonosDeBackoff(k) ==
    LET bs == SelectSeq(historico[k].sonos, LAMBDA x : x[1] = "backoff")
    IN  [n \in 1..Len(bs) |-> bs[n][2]]

\* C14: a call whose transport failed on the first two attempts and gave a
\* text on the third returns that text after exactly two backoff sleeps, and
\* the error counter grew by exactly two during the call, whatever the class
\* of the two failures.
C14_DuasFalhasDoisSonosDoisErros ==
    \A k \in 1..Len(historico) :
        (historico[k].origem = "transporte" /\ historico[k].ok
            /\ historico[k].transportes = 3) =>
                /\ Len(SonosDeBackoff(k)) = 2
                /\ historico[k].erros = 2

\* C15: a call whose attempts all failed made exactly max_retries attempts,
\* slept 2^n seconds after failed attempt n for n < max_retries and not after
\* the last one, and raised a typed gateway exception.
C15_EsgotaTentativas ==
    \A k \in 1..Len(historico) :
        (historico[k].origem = "transporte" /\ ~historico[k].ok) =>
            /\ model => historico[k].transportes = max_retries
            /\ SonosDeBackoff(k) = [n \in 1..(max_retries - 1) |-> 2 ^ n]
            /\ historico[k].valor \in {"APIException", "RateLimitException"}

\* C15 witness: a call on a gateway with a model failed after max_retries
\* invocations of the transport.
C15_Testemunha ==
    /\ model
    /\ \E k \in 1..Len(historico) :
          /\ historico[k].origem = "transporte"
          /\ ~historico[k].ok
          /\ historico[k].transportes = max_retries
          /\ Len(historico[k].sonos) = max_retries - 1

\* C16: a call that met an authentication failure (key refused by the
\* provider, or no key so that no model was built) ends with an exception
\* after that one attempt, without any backoff sleep.
C16_AutenticacaoSemNovaTentativa ==
    \A k \in 1..Len(historico) :
        (historico[k].origem = "transporte" /\ historico[k].auth) =>
            /\ ~historico[k].ok
            /\ SonosDeBackoff(k) = <<>>
            /\ historico[k].transportes <= 1

---------------------------------------------------------------------------
(* Properties of the pipeline: failures, persistence, progress *)

EventoSalvar == Evento("chamada", "salvar", 0, 0)

\* C17: when the agent call of a section raises (a gateway error that left
\* gerar_conteudo), the run ends there: the call of that section is the last
\* thing logged, no report was written, the document was not saved and did
\* not become CONCLUIDO, and the result is sucesso = false.
C17_ErroFatalAbortaExecucao ==
    falha = "falha_agente" =>
        /\ pc = "retornou"
        /\ resultado = [sucesso |-> FALSE, mensagem |-> "falha_agente"]
        /\ Ultima(eventos) = Evento("chamada", "revisar", fase, idx)
        /\ ~Ocorreu(EventoSalvar)
        /\ \A k \in 1..Len(eventos) : eventos[k][1] = "fim" =>
              eventos[k][2] \in {"carregamento", "extracao"}
        /\ relatorios = {}
        /\ statusTexto = "revisando"

\* C17 witness: the agent failed on a section that is neither the last
\* section nor in the last phase, after another section had been revised.
C17_Testemunha ==
    /\ falha = "falha_agente"
    /\ pc = "retornou"
    /\ fase < nFases
    /\ 1 < idx
    /\ idx < Len(secoes)

\* the stages that come before the document is saved
EtapasAntesDeSalvar == {Etapas[k] : k \in 1..(Len(Etapas) - 1)}

\* salvar was called at most once, after every stage up to the reports had
\* finished and the status had become CONCLUIDO
SalvarUmaVezDepoisDeTudo ==
    /\ Vezes(EventoSalvar) <= 1
    /\ \A k \in 1..Len(eventos) :
          eventos[k] = EventoSalvar =>
              /\ statusTexto = "concluido"
              /\ \A e \in EtapasAntesDeSalvar :
                    \E j \in 1..(k - 1) : eventos[j] = Evento("fim", e, 0, 0)
              /\ falha \in {"nenhuma", "falha_persistencia"}

NaoDecrescente(ns) == \A k \in 1..(Len(ns) - 1) : ns[k] <= ns[k + 1]

PrimeiraRespostaSempreLimpa ==
    \A s \in 1..Len(secoes) : \A f \in 1..nFases :
        \E k \in RevisoesDaFase(s, f) :
            /\ secoes[s].revisoes[k].numero_iteracao = 1
            /\ secoes[s].revisoes[k].total_erros = 0

\* C20: a run over three sections and two phases in which the first answer
\* of every executar call has zero errors (and no other collaborator fails)
\* returns sucesso = true with status CONCLUIDO and total_iteracoes = 1 for
\* every section.  Violated: each section holds one revision per phase.
C20_TresSecoesDuasFases ==
    (/\ pc = "retornou"
     /\ falha = "nenhuma"
     /\ nFases = 2
     /\ Len(secoes) = 3
     /\ PrimeiraRespostaSempreLimpa) =>
        /\ resultado.sucesso
        /\ statusTexto = "concluido"
        /\ \A s \in 1..Len(secoes) : TotalIteracoes(secoes[s]) = 1

---------------------------------------------------------------------------
(* Properties of the gateway: metrics, mock mode *)

Contadores ==
    {"total_requests", "total_tokens_input", "total_tokens_output", "total_erros",
     "tempo_total_seg"}

\* a step taken while no gerar_conteudo call is running and that starts or
\* finishes none: resetar_metricas, limpar_cache, or time passing
PassoForaDeChamada == gwPc = "ocioso" /\ gwPc' = "ocioso" /\ historico' = historico

\* a step in which a gerar_conteudo call returned or raised
ChamadaTerminou == Len(historico') = Len(historico) + 1

C22_ResetELimpezaIndependentes ==
    [][/\ (PassoForaDeChamada /\ metricas' # metricas) =>
             /\ \A c \in Contadores : metricas'[c] = 0
             /\ cache' = cache
             /\ request_timestamps' = request_timestamps
       /\ (limpou' /\ ~limpou) =>
             /\ cache' = {}
             /\ metricas' = metricas]_vars

\* C22 witness: the counters are zero again although the gateway holds a
\* cached response and a timestamp in its window.
C22_Testemunha ==
    /\ ~modo_mock
    /\ Len(historico) >= 1
    /\ historico[1].origem = "transporte"
    /\ historico[1].ok
    /\ \A c \in Contadores : metricas[c] = 0
    /\ cache # {}
    /\ request_timestamps # <<>>

\* C23: in mock mode a call is answered at once by the mock path with the
\* placeholder text, without transport, wait or cache, and it adds one to
\* total_requests and nothing to the other counters.
C23_MockContaUmRequest ==
    [][(modo_mock /\ ChamadaTerminou) =>
          LET h == Ultima(historico')
          IN  /\ h.origem = "mock"
              /\ h.ok
              /\ h.valor = TextoMock
              /\ h.transportes = 0
              /\ h.sonos = <<>>
              /\ metricas'.total_requests = metricas.total_requests + 1
              /\ \A c \in Contadores \ {"total_requests"} : metricas'[c] = metricas[c]
              /\ request_timestamps' = request_timestamps]_vars

\* C23 witness: two mock calls with different prompts got the same text.
C23_Testemunha ==
    /\ modo_mock
    /\ Len(historico) = 2
    /\ historico[1].pedido.prompt # historico[2].pedido.prompt
    /\ historico[1].valor = historico[2].valor
    /\ metricas.total_requests = 2

\* C24: once a call has returned a response, and until the cache is cleared,
\* the cache holds at least one entry; after limpar_cache it is empty.
\* Violated: the mock path returns before the cache is written.
C24_CacheNaoVazioAposResposta ==
    /\ (Len(historico) >= 1 /\ Ultima(historico).ok /\ ~limpou) => cache # {}
    /\ limpou => cache = {}

---------------------------------------------------------------------------
(* Properties of the provider gateways *)

\* what the call state machine did in a call: attempts, backoff sleeps,
\* counters, cache write, and whether it returned
Percurso(r) ==
    [ok |-> r.ok, transportes |-> r.transportes, sonos |-> r.sonos,
     metricas |-> r.metricas, cacheou |-> r.cacheou]

\* C25: called on the same sequence of transport outcomes, any two providers
\* make the same attempts and backoff sleeps, update the counters and the
\* cache alike, and both return or both raise.  Violated: GroqGateway and
\* OpenRouterGateway make one attempt and count every failure.
C25_ProvedoresEquivalentes ==
    \A p, q \in Provedores :
        (pvChamadas[p] # <<>> /\ pvChamadas[q] # <<>>) =>
            Percurso(pvChamadas[p][1]) = Percurso(pvChamadas[q][1])

---------------------------------------------------------------------------
(* Properties of the pipeline: which exceptions are recovered *)

\* the formats _gerar_relatorios skipped because generating them raised
\* ValueError (defined once the report stage has finished)
FormatosIgnorados == FormatosPedidos \ relatorios

\* an exception reached the handler of executar: the run has returned
\* sucesso = false with its message
ExcecaoEncerraExecucao ==
    /\ falha # "nenhuma" =>
          /\ pc = "retornou"
          /\ resultado = [sucesso |-> FALSE, mensagem |-> falha]
    /\ (pc # "resposta" /\ \E k \in 1..Len(respostas) : respostas[k].tipo = "erro") =>
          falha = "falha_agente"
    /\ (resultado # SemResultado /\ resultado.sucesso) => falha = "nenhuma"

\* C26 as stated: every exception other than the parse failure inside the
\* revision loop ends the run with sucesso = false; in particular no format
\* is missing once the report stage has finished.  Violated: the ValueError
\* of a format is caught in _gerar_relatorios and the run goes on.
C26_SoFalhaDeParseRecuperada ==
    /\ ExcecaoEncerraExecucao
    /\ Ocorreu(Evento("fim", "relatorio", 0, 0)) => FormatosIgnorados = {}

\* C26 amended: the exceptions recovered are the parse failure inside the
\* revision loop and the ValueError of a report format; every other
\* exception ends the run with sucesso = false, and a run that skipped a
\* format wrote no report for it and still went on to save the document.
C26_SoParseEValueErrorRecuperados ==
    /\ ExcecaoEncerraExecucao
    /\ relatorios \subseteq FormatosPedidos
    /\ (pc = "retornou" /\ falha = "nenhuma") =>
          /\ resultado.sucesso
          /\ Ocorreu(EventoSalvar)

\* C26 witness: a successful run in which a report format was skipped and
\* the first iteration of some executar call was spent on a parse failure.
C26_Testemunha ==
    /\ pc = "retornou"
    /\ resultado.sucesso
    /\ FormatosIgnorados # {}
    /\ \E sc \in 1..Len(secoes) : \E f \in 1..nFases :
          /\ RevisoesDaFase(sc, f) # {}
          /\ \A k \in RevisoesDaFase(sc, f) : secoes[sc].revisoes[k].numero_iteracao >= 2

\* C27: in every section the revisions recorded so far are strictly ordered
\* by numero_iteracao.  Violated: the loop numbers the revisions of every
\* phase from 1 again.
C27_RevisoesEmOrdemEstrita ==
    \A sc \in 1..Len(secoes) :
        \A j, k \in 1..Len(secoes[sc].revisoes) :
            j < k => secoes[sc].revisoes[j].numero_iteracao
                        < secoes[sc].revisoes[k].numero_iteracao

---------------------------------------------------------------------------
(* Properties of Secao.obter_todos_erros *)

\* whitespace runs collapsed to one whitespace character, nothing else
RECURSIVE Colapsar(_)
Colapsar(str) ==
    IF Len(str) <= 1 THEN str
    ELSE IF str[1] = " " /\ str[2] = " " THEN Colapsar(Tail(str))
    ELSE <<str[1]>> \o Colapsar(Tail(str))

MesmaChaveColapsada(e1, e2) ==
    /\ e1.tipo = e2.tipo
    /\ Colapsar(e1.trecho_original) = Colapsar(e2.trecho_original)

\* same category and the same words in the snippet
MesmaChave(e1, e2) ==
    /\ e1.tipo = e2.tipo
    /\ Split(e1.trecho_original) = Split(e2.trecho_original)

\* C28 as stated, the key being (category, snippet with its whitespace runs
\* collapsed): the view holds exactly one Error per key occurring in the
\* revisions, the first one in revision order, and nothing else.  Violated:
\* the code also drops the whitespace at the ends of the snippet, so " a b"
\* and "a b" are one key.
C28_UmErroPorChaveColapsada ==
    seErros # <<>> =>
        LET r == seErros[1]
            todos == ErrosEmOrdem(seRevisoes)
        IN  /\ \A k \in 1..Len(todos) :
                  Cardinality({j \in 1..Len(r) : MesmaChaveColapsada(r[j], todos[k])}) = 1
            /\ \A j \in 1..Len(r) : \E k \in 1..Len(todos) :
                  /\ todos[k] = r[j]
                  /\ \A i \in 1..(k - 1) : ~MesmaChaveColapsada(todos[i], r[j])

\* C28 amended, the key being (category, snippet with its whitespace runs
\* collapsed and the whitespace at its ends removed): the view holds exactly
\* one Error per key occurring in the revisions, the first one in revision
\* order, and nothing else.
C28_UmErroPorChave ==
    seErros # <<>> =>
        LET r == seErros[1]
            todos == ErrosEmOrdem(seRevisoes)
        IN  /\ \A k \in 1..Len(todos) :
                  Cardinality({j \in 1..Len(r) : MesmaChave(r[j], todos[k])}) = 1
            /\ \A j \in 1..Len(r) : \E k \in 1..Len(todos) :
                  /\ todos[k] = r[j]
                  /\ \A i \in 1..(k - 1) : ~MesmaChave(todos[i], r[j])

\* C28 witness: two revisions report an error of the same category whose
\* snippets differ only in whitespace and whose descriptions differ; the
\* view holds the first of them and an error of another category.
C28_Testemunha ==
    /\ seErros # <<>>
    /\ Len(seRevisoes) = 2
    /\ Len(seErros[1]) = 2
    /\ Len(seRevisoes[1]) = 1
    /\ Len(seRevisoes[2]) = 2
    /\ seRevisoes[1][1].trecho_original = <<" ", "a", " ", "b">>
    /\ seRevisoes[2][1].trecho_original = <<"a", " ", " ", "b">>
    /\ seRevisoes[2][1].tipo = seRevisoes[1][1].tipo
    /\ seRevisoes[2][1].descricao # seRevisoes[1][1].descricao
    /\ seErros[1][1] = seRevisoes[1][1]
    /\ seErros[1][2] = seRevisoes[2][2]

---------------------------------------------------------------------------
(* Properties of TextoEstruturado *)

\* position of a status in the lifecycle; 0 for a status outside of it
OrdemStatus(s) ==
    CASE s = "pendente" -> 1
      [] s = "processando" -> 2
      [] s = "revisando" -> 3
      [] s = "validando" -> 4
      [] s = "concluido" -> 5
      [] s \in {"erro", "cancelado"} -> 6
      [] OTHER -> 0

\* C29: no operation on a document moves its status back in the lifecycle
\* pendente -> processando -> revisando -> validando -> concluido, erro and
\* cancelado being final, except an operation that cancels it.  Violated:
\* atualizar_status stores whatever status it is given.
C29_StatusSoAvanca ==
    [][(OrdemStatus(dcStatus) > 0 /\ OrdemStatus(dcStatus') > 0 /\ dcStatus' # "cancelado")
          => OrdemStatus(dcStatus') >= OrdemStatus(dcStatus)]_vars

TitulosDaLista(lista) == {lista[i].titulo : i \in 1..Len(lista)}

SemTituloRepetido(lista) ==
    \A i, j \in 1..Len(lista) : i # j => lista[i].titulo # lista[j].titulo

\* C30: after every adicionar_secao and remover_secao the sections of the
\* list have distinct titles and the keys of the index are the titles of the
\* list; an adicionar_secao whose title is already in the list raises
\* SecaoDuplicadaException and leaves the list, the index and the history
\* as they were.
C30_TitulosUnicosEIndexCoerente ==
    [][/\ SemTituloRepetido(dcSecoes')
       /\ {e[1] : e \in dcIndex'} = TitulosDaLista(dcSecoes')
       /\ (/\ dcChamada'.op = "adicionar_secao"
           /\ dcChamada'.secao # <<>>
           /\ dcChamada'.secao[1].titulo \in TitulosDaLista(dcSecoes))
          => /\ dcExcecao' = "SecaoDuplicadaException"
             /\ UNCHANGED <<dcSecoes, dcIndex, dcHistorico>>]_vars

\* C30 witness: a section was added, removed and added again with another
\* body, and a second section with the same title has just been rejected.
C30_Testemunha ==
    /\ dcChamada.op = "adicionar_secao"
    /\ dcExcecao = "SecaoDuplicadaException"
    /\ Len(dcSecoes) = 1
    /\ dcChamada.secao[1].titulo = dcSecoes[1].titulo
    /\ dcChamada.secao[1] # dcSecoes[1]
    /\ Len(dcHistorico) = 3
    /\ dcHistorico[2].evento = "Seção removida"

---------------------------------------------------------------------------
(* Properties of the gateway: timeout, rate limit *)

\* C31: every gerar_conteudo call that began eventually returns or raises,
\* also when the transport never answers (the attempt then ends with a
\* timeout that is retried like any transient failure).  Violated: nothing
\* ends an attempt whose transport does not answer.
C31_ChamadaSempreTermina ==
    (gwPc # "ocioso") ~> (gwPc = "ocioso")

\* C32: every transport attempt of a call, the retries after a backoff sleep
\* included, is preceded by its own rate-limit check: a call about to make
\* its n-th attempt has checked the rate limit n times.  Violated: the check
\* is made once, before the retry loop.
C32_VerificacaoAntesDeCadaTentativa ==
    gwPc = "tentativa" => chamada.verificacoes = chamada.tentativa

---------------------------------------------------------------------------
(* Properties of the revision loop: inputs of an iteration, termination *)

\* the revisions the executar call in progress (phase fase, section idx) has
\* recorded so far, oldest first
RevisoesDaChamada ==
    SelectSeq(secoes[idx].revisoes, LAMBDA r : r.agente = fase)

\* the output of the latest revision of rs that did not converge and whose
\* output is not empty; the original content when there is none
RECURSIVE TextoDeReferencia(_)
TextoDeReferencia(rs) ==
    IF rs = <<>> THEN TextoOriginal
    ELSE LET r == rs[Len(rs)]
         IN  IF ~r.convergiu /\ r.texto_saida # TextoVazio
             THEN r.texto_saida
             ELSE TextoDeReferencia(SubSeq(rs, 1, Len(rs) - 1))

ErrosDeReferencia(rs) == IF rs = <<>> THEN 0 ELSE rs[Len(rs)].total_erros

EmIteracao == pc \in {"agente", "resposta"}

\* C33: in every iteration of an executar call the text sent to the agent is
\* the output of the latest earlier revision of the call that did not
\* converge and had a non-empty output, or the original content of the
\* section when there is none, and erros_anterior is the error count of the
\* latest revision the call recorded, or 0 when it recorded none; every
\* revision recorded kept as texto_entrada the text that was sent for it.
C33_EntradaDaIteracao ==
    EmIteracao =>
        LET rs == RevisoesDaChamada
        IN  /\ laco.texto_atual = TextoDeReferencia(rs)
            /\ laco.erros_anterior = ErrosDeReferencia(rs)
            /\ \A k \in 1..Len(rs) :
                  rs[k].texto_entrada = TextoDeReferencia(SubSeq(rs, 1, k - 1))

\* C33 witness: the fourth iteration of a call is about to send the output of
\* the first one, after a second revision with an empty output and fewer
\* errors and a third answer that did not parse.
C33_Testemunha ==
    /\ pc = "agente"
    /\ laco.i = 4
    /\ Len(respostas) = 3
    /\ respostas[1] = [tipo |-> "revisao", erros |-> 2, saida |-> "novo"]
    /\ respostas[2] = [tipo |-> "revisao", erros |-> 1, saida |-> "vazio"]
    /\ respostas[3].tipo = "invalida"
    /\ laco.texto_atual = TextoRevisado(fase, 1)
    /\ laco.erros_anterior = 1
    /\ Len(RevisoesDaChamada) = 2

---------------------------------------------------------------------------
(* Properties of the agent *)

\* the answer is a JSON object whose "erros" is absent or a list of objects
\* with members of the expected types, and whose "texto_revisado" is absent
\* or a string
FormaValida(resposta) ==
    /\ resposta.texto = "json"
    /\ resposta.dados.forma = "objeto"
    /\ resposta.dados.erros.forma \in {"ausente", "lista"}
    /\ resposta.dados.texto_revisado \in {"ausente", "texto"}
    /\ \A k \in 1..Len(resposta.dados.erros.itens) :
          LET a == resposta.dados.erros.itens[k]
          IN  /\ a.forma = "objeto"
              /\ a.tipo \in {"ausente", "texto"}
              /\ a.justificativa \in {"ausente", "texto"}
              /\ a.severidade \in {"ausente", "inteiro"}

\* C34: for an answer that is empty, not JSON, or JSON of the wrong shape or
\* type at the top level or in an entry of "erros", processar raises
\* InvalidResponseException: it raises nothing else and returns no Revisao.
\* Violated: only JSONDecodeError and KeyError are turned into it.
C34_RespostaInvalidaLevantaInvalidResponse ==
    (agResultado # <<>> /\ ~FormaValida(agResposta)) =>
        agResultado[1].tipo = "InvalidResponseException"

\* C35: an executar call makes at most MAX_ITERACOES_PADRAO agent calls and
\* has ended once the last of them is handled, whatever the agent answers;
\* it records at most that many revisions, each numbered within
\* 1..MAX_ITERACOES_PADRAO, and only the last one it recorded may carry the
\* convergence flag.
C35_LacoLimitado ==
    (pc \in {"agente", "resposta", "secao_fim"}) =>
        LET rs == RevisoesDaChamada
        IN  /\ Len(respostas) <= MAX_ITERACOES_PADRAO
            /\ pc = "agente" => Len(respostas) < MAX_ITERACOES_PADRAO
            /\ Len(rs) <= Len(respostas)
            /\ \A k \in 1..Len(rs) :
                  /\ rs[k].numero_iteracao \in 1..MAX_ITERACOES_PADRAO
                  /\ rs[k].convergiu => k = Len(rs)

\* C35 witness: a call that has returned after five agent calls, the first,
\* third and fifth of which did not parse, with two revisions recorded in
\* iterations 2 and 4 and without converging.
C35_Testemunha ==
    /\ pc = "secao_fim"
    /\ Len(respostas) = MAX_ITERACOES_PADRAO
    /\ respostas[1].tipo = "invalida"
    /\ respostas[3].tipo = "invalida"
    /\ respostas[5].tipo = "invalida"
    /\ Len(RevisoesDaChamada) = 2
    /\ RevisoesDaChamada[1].numero_iteracao = 2
    /\ RevisoesDaChamada[2].numero_iteracao = 4
    /\ ~saida.convergiu

\* the revisions of the call in progress that report more errors than the
\* revision the call recorded before them
AumentosDeErros ==
    {k \in 2..Len(RevisoesDaChamada) :
        RevisoesDaChamada[k].total_erros > RevisoesDaChamada[k - 1].total_erros}

\* C36 as stated: no revision that reports more errors than the previous
\* revision of the same call is marked as converged.  Violated: the
\* reduction rate of such a revision is negative, hence below 1 - limiar.
C36_AumentoNuncaConverge ==
    (pc \in {"agente", "resposta", "secao_fim"}) =>
        \A k \in AumentosDeErros : ~RevisoesDaChamada[k].convergiu

\* C36 amended: every revision that reports more errors than the previous
\* revision of the same call is marked as converged, and the call reports
\* convergence once it has returned.
C36_AumentoSempreConverge ==
    (pc \in {"agente", "resposta", "secao_fim"}) =>
        \A k \in AumentosDeErros :
            /\ RevisoesDaChamada[k].convergiu
            /\ pc = "secao_fim" => saida.convergiu

\* C36 witness: a call that returned after a revision with one error and a
\* second one with two.
C36_Testemunha ==
    /\ pc = "secao_fim"
    /\ Len(RevisoesDaChamada) = 2
    /\ RevisoesDaChamada[1].total_erros = 1
    /\ RevisoesDaChamada[2].total_erros = 2
    /\ saida.convergiu

---------------------------------------------------------------------------
(* Properties of the gateway: transport attempts inside the window *)

RECURSIVE SomaDosSonos(_, _)
SomaDosSonos(sonos, n) ==
    IF n = 0 THEN 0 ELSE sonos[n][2] + SomaDosSonos(sonos, n - 1)

\* the time at which call c started its j-th transport attempt: the call
\* began at c.inicio, slept for the rate limit (if it did) and then, before
\* each later attempt, waited for the previous one and slept its backoff
InicioDaTentativa(c, j) ==
    c.inicio
    + SomaDosSonos(c.sonos,
                   Cardinality({n \in 1..Len(c.sonos) : c.sonos[n][1] = "limite"}) + j - 1)
    + (j - 1) * DuracaoRequest

\* the transport attempts started so far, as <<call, attempt>> (call 0 is
\* the one in progress), and the time each one started
TentativasIniciadas ==
    {<<k, j>> : k \in 1..Len(historico), j \in 1..max_retries}
    \cup {<<0, j>> : j \in 1..max_retries}

Iniciada(a) ==
    IF a[1] = 0 THEN a[2] <= chamada.transportes
    ELSE a[2] <= historico[a[1]].transportes

InicioDe(a) ==
    IF a[1] = 0 THEN InicioDaTentativa(chamada, a[2])
    ELSE InicioDaTentativa(historico[a[1]], a[2])

\* C37: at the start of every transport attempt, the attempts started in the
\* 60 seconds that end with it, itself included, failed ones and retries
\* counted, are at most requests_per_minute.  Violated: retries are not
\* rate limited and only answered attempts enter the window.
C37_TentativasNaJanela ==
    \A a \in TentativasIniciadas :
        Iniciada(a) =>
            Cardinality({b \in TentativasIniciadas :
                            /\ Iniciada(b)
                            /\ InicioDe(b) <= InicioDe(a)
                            /\ InicioDe(a) - InicioDe(b) < JanelaSegundos})
                <= requests_per_minute

---------------------------------------------------------------------------
(* Properties of the phases *)

\* C38: the request an agent sends in any iteration is built from the
\* prompt template of the agent's own tipo_revisao.  Violated: the
\* configuration the loop hands to the agent names "revisao_gramatical",
\* and the agent takes the template from the configuration first.
C38_PromptDoPapelDoAgente ==
    pc = "agente" =>
        PedidoDoAgente(fase, laco.texto_atual).prompt[1] = TiposRevisao[fase]

\* C39: the first iteration of every phase sends the original content of
\* the section; a revision never takes as input a text produced in another
\* phase, and the original content of every section stays what it was when
\* the section was built.
C39_CadaFaseParteDoOriginal ==
    /\ (pc = "agente" /\ laco.i = 1) => laco.texto_atual = TextoOriginal
    /\ \A k \in 1..Len(secoes) :
          /\ secoes[k].conteudo_original = TextoOriginal
          /\ \A n \in 1..Len(secoes[k].revisoes) :
                LET r == secoes[k].revisoes[n]
                IN  \/ r.texto_entrada = TextoOriginal
                    \/ /\ r.texto_entrada[1] = "rev"
                       /\ r.texto_entrada[2] = r.agente
                       /\ r.texto_entrada[3] < r.numero_iteracao

\* C39 witness: the second phase is about to send the original content of a
\* section for which the first phase recorded two revisions with new texts.
C39_Testemunha ==
    /\ pc = "agente"
    /\ fase = 2
    /\ laco.i = 1
    /\ laco.texto_atual = TextoOriginal
    /\ Len(secoes[idx].revisoes) = 2
    /\ secoes[idx].revisoes[1].texto_saida = TextoRevisado(1, 1)
    /\ secoes[idx].revisoes[2].texto_saida = TextoRevisado(1, 2)
    /\ secoes[idx].revisoes[2].texto_entrada = TextoRevisado(1, 1)

===========================================================================
